---- MODULE Spec2Model ----
(***************************************************************************)
(* MOAT (Mock Orcid API Thing): the mock ORCID v3.0 service of main.go and *)
(* the models package.                                                     *)
(*                                                                         *)
(* Go values are represented as follows: a string is a TLA+ string, a bool *)
(* a BOOLEAN, an int an integer, a struct a record keyed by the Go field   *)
(* names, a pointer the empty tuple (nil) or a one-element tuple, a slice  *)
(* a tuple (nil and empty are not distinguished: no code of the repository *)
(* builds an empty non-nil slice).                                         *)
(***************************************************************************)
EXTENDS Integers, Sequences, FiniteSets, TLC

(***************************************************************************)
(* strings, strconv                                                         *)
(***************************************************************************)

\* s[i] as a one-character string
CharAt(s, i) == SubSeq(s, i, i)

\* An operator that uses a parameter several times binds it first, as in
\* s \in {s0}: its argument is then evaluated once, inside ENABLED as well,
\* where TLC does not keep the value of an argument it has evaluated.

\* strings.HasPrefix
HasPrefix(s0, prefix0) ==
    CHOOSE once \in
        {(
            /\ Len(s) >= Len(prefix)
            /\ SubSeq(s, 1, Len(prefix)) = prefix
         ) : s \in {s0}, prefix \in {prefix0}} : TRUE

\* strings.Contains
Contains(s0, substr0) ==
    CHOOSE once \in
        {(
            \E i \in 1..(Len(s) - Len(substr) + 1) :
                SubSeq(s, i, i + Len(substr) - 1) = substr
         ) : s \in {s0}, substr \in {substr0}} : TRUE

\* strings.Index, 1-based; 0 when substr does not occur in s
Index(s0, substr0) ==
    CHOOSE once \in
        {(
            LET hits == {i \in 1..(Len(s) - Len(substr) + 1) :
                            SubSeq(s, i, i + Len(substr) - 1) = substr}
            IN  IF hits = {} THEN 0 ELSE CHOOSE i \in hits : \A j \in hits : i <= j
         ) : s \in {s0}, substr \in {substr0}} : TRUE

\* strings.LastIndex, 1-based; 0 when substr does not occur in s
LastIndex(s0, substr0) ==
    CHOOSE once \in
        {(
            LET hits == {i \in 1..(Len(s) - Len(substr) + 1) :
                            SubSeq(s, i, i + Len(substr) - 1) = substr}
            IN  IF hits = {} THEN 0 ELSE CHOOSE i \in hits : \A j \in hits : i >= j
         ) : s \in {s0}, substr \in {substr0}} : TRUE

UpperLetters == "ABCDEFGHIJKLMNOPQRSTUVWXYZ"
LowerLetters == "abcdefghijklmnopqrstuvwxyz"

RECURSIVE ToLower(_)
\* strings.ToLower (ASCII letters)
ToLower(s0) ==
    CHOOSE once \in
        {(
            IF s = "" THEN ""
            ELSE LET c == CharAt(s, 1)
                     i == Index(UpperLetters, c)
                 IN  (IF i = 0 THEN c ELSE CharAt(LowerLetters, i)) \o ToLower(Tail(s))
         ) : s \in {s0}} : TRUE

IsSpace(c) == c \in {" ", "\t", "\n", "\r"}

RECURSIVE TrimLeft(_)
TrimLeft(s) == IF s # "" /\ IsSpace(CharAt(s, 1)) THEN TrimLeft(Tail(s)) ELSE s

RECURSIVE TrimRight(_)
TrimRight(s) ==
    IF s # "" /\ IsSpace(CharAt(s, Len(s)))
    THEN TrimRight(SubSeq(s, 1, Len(s) - 1)) ELSE s

\* strings.TrimSpace, bytes.TrimSpace
TrimSpace(s) == TrimRight(TrimLeft(s))

Digits == "0123456789"

RECURSIVE FormatNat(_)
FormatNat(n0) ==
    CHOOSE once \in
        {(
            IF n < 10 THEN CharAt(Digits, n + 1)
            ELSE FormatNat(n \div 10) \o CharAt(Digits, (n % 10) + 1)
         ) : n \in {n0}} : TRUE

\* strconv.Itoa, strconv.FormatInt(n, 10)
Itoa(n) == IF n < 0 THEN "-" \o FormatNat(0 - n) ELSE FormatNat(n)

IsDigits(s) == s # "" /\ \A i \in 1..Len(s) : Index(Digits, CharAt(s, i)) # 0

RECURSIVE ParseNat(_)
ParseNat(s0) ==
    CHOOSE once \in
        {(
            IF s = "" THEN 0
            ELSE ParseNat(SubSeq(s, 1, Len(s) - 1)) * 10 + (Index(Digits, CharAt(s, Len(s))) - 1)
         ) : s \in {s0}} : TRUE

\* the longest decimal literal the model parses; longer ones are outside its inputs
MaxDigits == 8

\* strconv.Atoi: [ok, val]; val is 0 on a syntax error
Atoi(s0) ==
    CHOOSE once \in
        {(
            LET sign == IF s # "" /\ CharAt(s, 1) \in {"+", "-"} THEN CharAt(s, 1) ELSE ""
                body == IF sign = "" THEN s ELSE Tail(s)
            IN  IF IsDigits(body) /\ Len(body) <= MaxDigits
                THEN [ok |-> TRUE, val |-> IF sign = "-" THEN 0 - ParseNat(body) ELSE ParseNat(body)]
                ELSE [ok |-> FALSE, val |-> 0]
         ) : s \in {s0}} : TRUE

\* strconv.ParseBool: [ok, val]
ParseBool(s) ==
    IF s \in {"1", "t", "T", "true", "TRUE", "True"} THEN [ok |-> TRUE, val |-> TRUE]
    ELSE IF s \in {"0", "f", "F", "false", "FALSE", "False"} THEN [ok |-> TRUE, val |-> FALSE]
    ELSE [ok |-> FALSE, val |-> FALSE]

\* strconv.FormatBool
FormatBool(b) == IF b THEN "true" ELSE "false"


(***************************************************************************)
(* The record model: the struct types with their xml and json field tags.  *)
(* A field is [go, t, mode, ns, name, omit, json, jomit]: the Go field     *)
(* name, its type, how encoding/xml treats it ("elem", "attr", "chardata", *)
(* "xmlname"), the namespace and name of its xml tag, the xml omitempty    *)
(* flag, the json key ("" for json:"-") and the json omitempty flag.       *)
(***************************************************************************)

String == [k |-> "string"]
Bool == [k |-> "bool"]
Integer == [k |-> "int"]
Struct(n) == [k |-> "struct", name |-> n]
Ptr(t) == [k |-> "ptr", of |-> t]
Slice(t) == [k |-> "slice", of |-> t]

\* a field of main.go: `json:"<key>[,omitempty]" xml:"<name>[,omitempty]"`
Fld(go, t, name, omit) ==
    [go |-> go, t |-> t, mode |-> "elem", ns |-> "", name |-> name, omit |-> omit,
     json |-> name, jomit |-> omit]

\* XMLName xml.Name `json:"-" xml:"<name>"` (ns is "" in main.go)
XMLNameFld(ns, name) ==
    [go |-> "XMLName", t |-> Struct("Name"), mode |-> "xmlname", ns |-> ns,
     name |-> name, omit |-> FALSE, json |-> "", jomit |-> FALSE]

\* a field with only a json tag: encoding/xml falls back on the Go field name
JsonFld(go, t, key) ==
    [go |-> go, t |-> t, mode |-> "elem", ns |-> "", name |-> go, omit |-> FALSE,
     json |-> key, jomit |-> FALSE]

T_TokenResponse ==
    [tname |-> "TokenResponse", fields |-> <<
        JsonFld("AccessToken", String, "access_token"),
        JsonFld("TokenType", String, "token_type"),
        JsonFld("RefreshToken", String, "refresh_token"),
        JsonFld("ExpiresIn", Integer, "expires_in"),
        JsonFld("Scope", String, "scope"),
        JsonFld("Name", String, "name"),
        JsonFld("ORCID", String, "orcid")>>]

T_OrcidRecord ==
    [tname |-> "OrcidRecord", fields |-> <<
        XMLNameFld("", "record"),
        Fld("OrcidIdentifier", Struct("OrcidIdentifier"), "orcid-identifier", FALSE),
        Fld("Person", Struct("Person"), "person", FALSE),
        Fld("Activities", Struct("Activities"), "activities-summary", FALSE)>>]

T_OrcidIdentifier ==
    [tname |-> "OrcidIdentifier", fields |-> <<
        Fld("Uri", String, "uri", FALSE),
        Fld("Path", String, "path", FALSE),
        Fld("Host", String, "host", FALSE)>>]

T_Person ==
    [tname |-> "Person", fields |-> <<
        Fld("Name", Struct("Name_"), "name", FALSE),
        Fld("Biography", Ptr(Struct("Biography")), "biography", TRUE),
        Fld("Emails", Ptr(Struct("Emails")), "emails", TRUE),
        Fld("ResearcherUrls", Ptr(Struct("ResearcherUrls")), "researcher-urls", TRUE)>>]

T_Biography ==
    [tname |-> "Biography", fields |-> <<Fld("Content", String, "content", FALSE)>>]

T_Emails ==
    [tname |-> "Emails", fields |-> <<Fld("Email", Slice(Struct("Email")), "email", FALSE)>>]

T_Email ==
    [tname |-> "Email", fields |-> <<
        Fld("Email", String, "email", FALSE),
        Fld("Verified", Bool, "verified", FALSE),
        Fld("Primary", Bool, "primary", FALSE),
        Fld("Visibility", String, "visibility", FALSE)>>]

T_ResearcherUrls ==
    [tname |-> "ResearcherUrls", fields |-> <<
        Fld("ResearcherUrl", Slice(Struct("ResearcherUrl")), "researcher-url", FALSE)>>]

T_ResearcherUrl ==
    [tname |-> "ResearcherUrl", fields |-> <<
        Fld("UrlName", String, "url-name", FALSE),
        Fld("Url", Struct("Value"), "url", FALSE)>>]

\* type Name of main.go (keyed Name_: Name is xml.Name)
T_Name ==
    [tname |-> "Name", fields |-> <<
        Fld("GivenNames", Struct("Value"), "given-names", FALSE),
        Fld("FamilyName", Struct("Value"), "family-name", FALSE),
        Fld("CreditName", Struct("Value"), "credit-name", FALSE)>>]

T_Value ==
    [tname |-> "Value", fields |-> <<Fld("Value", String, "value", FALSE)>>]

T_Activities ==
    [tname |-> "Activities", fields |-> <<
        Fld("Works", Struct("WorkSummaryGroup"), "works", FALSE),
        Fld("Employment", Struct("EmploymentSummaryGroup"), "employments", FALSE)>>]

T_WorkSummaryGroup ==
    [tname |-> "WorkSummaryGroup", fields |-> <<
        Fld("Group", Slice(Struct("WorkGroup")), "group", FALSE)>>]

T_WorkGroup ==
    [tname |-> "WorkGroup", fields |-> <<
        Fld("WorkSummary", Slice(Struct("WorkSummary")), "work-summary", FALSE)>>]

T_WorkSummary ==
    [tname |-> "WorkSummary", fields |-> <<
        Fld("PutCode", Integer, "put-code", FALSE),
        Fld("Title", Struct("Title"), "title", FALSE),
        Fld("Type", String, "type", FALSE),
        Fld("LastModified", Struct("LastModified"), "last-modified-date", FALSE)>>]

T_EmploymentSummaryGroup ==
    [tname |-> "EmploymentSummaryGroup", fields |-> <<
        Fld("AffiliationGroup", Slice(Struct("AffiliationGroup")), "affiliation-group", FALSE)>>]

T_AffiliationGroup ==
    [tname |-> "AffiliationGroup", fields |-> <<
        Fld("Summaries", Slice(Struct("EmploymentSummary")), "employment-summary", FALSE)>>]

T_EmploymentSummary ==
    [tname |-> "EmploymentSummary", fields |-> <<
        Fld("PutCode", Integer, "put-code", FALSE),
        Fld("DepartmentName", String, "department-name", FALSE),
        Fld("RoleTitle", String, "role-title", FALSE),
        Fld("Organization", Struct("Org"), "organization", FALSE)>>]

T_Org ==
    [tname |-> "Org", fields |-> <<Fld("Name", String, "name", FALSE)>>]

T_Title ==
    [tname |-> "Title", fields |-> <<Fld("Title", Struct("Value"), "title", FALSE)>>]

T_LastModified ==
    [tname |-> "LastModified", fields |-> <<Fld("Value", Integer, "value", FALSE)>>]

T_SearchResponse ==
    [tname |-> "SearchResponse", fields |-> <<
        XMLNameFld("", "search:search"),
        Fld("Result", Slice(Struct("SearchResult")), "result", FALSE),
        Fld("NumFound", Integer, "num-found", FALSE)>>]

T_SearchResult ==
    [tname |-> "SearchResult", fields |-> <<
        Fld("OrcidIdentifier", Struct("OrcidIdentifier"), "orcid-identifier", FALSE)>>]

T_GenericWorkResponse ==
    [tname |-> "GenericWorkResponse", fields |-> <<
        XMLNameFld("", "work:work"),
        Fld("Type", String, "type", FALSE),
        Fld("PutCode", Integer, "put-code", FALSE),
        Fld("Title", Struct("Title"), "title", FALSE),
        Fld("PublicationDate", Struct("DateYear"), "publication-date", FALSE)>>]

T_DateYear ==
    [tname |-> "DateYear", fields |-> <<Fld("Year", Struct("Value"), "year", FALSE)>>]

T_GenericEmploymentResponse ==
    [tname |-> "GenericEmploymentResponse", fields |-> <<
        XMLNameFld("", "employment:employment"),
        Fld("PutCode", Integer, "put-code", FALSE),
        Fld("DepartmentName", String, "department-name", FALSE),
        Fld("RoleTitle", String, "role-title", FALSE),
        Fld("Organization", Struct("Org"), "organization", FALSE),
        Fld("StartDate", Struct("DateYear"), "start-date", FALSE)>>]

\* the local type of handlePostWork and handlePostEmployment
T_PutCodeResponse ==
    [tname |-> "PutCodeResponse", fields |-> <<
        XMLNameFld("", "response"),
        Fld("PutCode", Integer, "put-code", FALSE)>>]

\* the local type of handlePutWork and handlePutEmployment
T_UpdateResponse ==
    [tname |-> "UpdateResponse", fields |-> <<
        XMLNameFld("", "response"),
        Fld("PutCode", String, "put-code", FALSE),
        Fld("Status", String, "status", FALSE)>>]


(***************************************************************************)
(* The models package (models/person.go): the namespaced person document.  *)
(* Its types are keyed m_<Type>; they carry no json tags, so encoding/json *)
(* would use the Go field names.                                           *)
(***************************************************************************)

NsCommon == "http://www.orcid.org/ns/common"
NsPerson == "http://www.orcid.org/ns/person"
NsPersonalDetails == "http://www.orcid.org/ns/personal-details"
NsOtherName == "http://www.orcid.org/ns/other-name"
NsResearcherUrl == "http://www.orcid.org/ns/researcher-url"
NsEmail == "http://www.orcid.org/ns/email"
NsAddress == "http://www.orcid.org/ns/address"
NsKeyword == "http://www.orcid.org/ns/keyword"
NsExternalIdentifier == "http://www.orcid.org/ns/external-identifier"
NsXsi == "http://www.w3.org/2001/XMLSchema-instance"

\* `xml:"<ns> <name>[,omitempty]"`
NsFld(go, t, ns, name, omit) ==
    [go |-> go, t |-> t, mode |-> "elem", ns |-> ns, name |-> name, omit |-> omit,
     json |-> go, jomit |-> FALSE]

\* `xml:"[<ns> ]<name>,attr,omitempty"`
AttrFld(go, ns, name) ==
    [go |-> go, t |-> String, mode |-> "attr", ns |-> ns, name |-> name, omit |-> TRUE,
     json |-> go, jomit |-> FALSE]

\* `xml:",chardata"`
CharDataFld(go) ==
    [go |-> go, t |-> String, mode |-> "chardata", ns |-> "", name |-> "", omit |-> FALSE,
     json |-> go, jomit |-> FALSE]

\* the fields most entries of the person document start with
CreatedDateFld == NsFld("CreatedDate", Ptr(String), NsCommon, "created-date", FALSE)
LastModifiedDateFld == NsFld("LastModifiedDate", Ptr(String), NsCommon, "last-modified-date", FALSE)
SourceFld == NsFld("Source", Ptr(Struct("m_Source")), NsCommon, "source", FALSE)

T_m_Person ==
    [tname |-> "Person", fields |-> <<
        XMLNameFld(NsPerson, "person"),
        AttrFld("XmlnsCommon", "", "xmlns:common"),
        AttrFld("XmlnsPerson", "", "xmlns:person"),
        AttrFld("XmlnsPersonal", "", "xmlns:personal-details"),
        AttrFld("XmlnsOtherName", "", "xmlns:other-name"),
        AttrFld("XmlnsResearcherUrl", "", "xmlns:researcher-url"),
        AttrFld("XmlnsEmail", "", "xmlns:email"),
        AttrFld("XmlnsAddress", "", "xmlns:address"),
        AttrFld("XmlnsKeyword", "", "xmlns:keyword"),
        AttrFld("XmlnsExternalId", "", "xmlns:external-identifier"),
        AttrFld("XmlnsXsi", "", "xmlns:xsi"),
        AttrFld("XsiSchemaLocation", NsXsi, "schemaLocation"),
        LastModifiedDateFld,
        NsFld("Name", Ptr(Struct("m_PersonName")), NsPerson, "name", FALSE),
        NsFld("OtherNames", Ptr(Struct("m_OtherNames")), NsOtherName, "other-names", FALSE),
        NsFld("Biography", Ptr(Struct("m_Biography")), NsPerson, "biography", FALSE),
        NsFld("ResearcherUrls", Ptr(Struct("m_ResearcherUrls")), NsResearcherUrl, "researcher-urls", FALSE),
        NsFld("Emails", Ptr(Struct("m_Emails")), NsEmail, "emails", FALSE),
        NsFld("Addresses", Ptr(Struct("m_Addresses")), NsAddress, "addresses", FALSE),
        NsFld("Keywords", Ptr(Struct("m_Keywords")), NsKeyword, "keywords", FALSE),
        NsFld("ExternalIdentifiers", Ptr(Struct("m_ExternalIdentifiers")), NsExternalIdentifier, "external-identifiers", FALSE),
        AttrFld("Path", "", "path")>>]

T_m_PersonName ==
    [tname |-> "PersonName", fields |-> <<
        AttrFld("Visibility", "", "visibility"),
        CreatedDateFld,
        LastModifiedDateFld,
        NsFld("GivenNames", String, NsPersonalDetails, "given-names", TRUE),
        NsFld("FamilyName", String, NsPersonalDetails, "family-name", TRUE),
        NsFld("CreditName", String, NsPersonalDetails, "credit-name", TRUE)>>]

T_m_OtherNames ==
    [tname |-> "OtherNames", fields |-> <<
        LastModifiedDateFld,
        NsFld("OtherNames", Slice(Ptr(Struct("m_OtherName"))), NsOtherName, "other-name", FALSE)>>]

T_m_OtherName ==
    [tname |-> "OtherName", fields |-> <<
        AttrFld("Visibility", "", "visibility"),
        AttrFld("PutCode", "", "put-code"),
        CreatedDateFld,
        LastModifiedDateFld,
        SourceFld,
        NsFld("Content", String, NsOtherName, "content", FALSE)>>]

T_m_Biography ==
    [tname |-> "Biography", fields |-> <<
        AttrFld("Visibility", "", "visibility"),
        CreatedDateFld,
        LastModifiedDateFld,
        NsFld("Content", String, NsPersonalDetails, "content", FALSE)>>]

T_m_ResearcherUrls ==
    [tname |-> "ResearcherUrls", fields |-> <<
        LastModifiedDateFld,
        NsFld("ResearcherUrls", Slice(Ptr(Struct("m_ResearcherUrl"))), NsResearcherUrl, "researcher-url", FALSE)>>]

T_m_ResearcherUrl ==
    [tname |-> "ResearcherUrl", fields |-> <<
        AttrFld("Visibility", "", "visibility"),
        AttrFld("PutCode", "", "put-code"),
        CreatedDateFld,
        LastModifiedDateFld,
        SourceFld,
        NsFld("UrlName", String, NsResearcherUrl, "url-name", FALSE),
        NsFld("Url", String, NsResearcherUrl, "url", FALSE)>>]

T_m_Emails ==
    [tname |-> "Emails", fields |-> <<
        NsFld("Emails", Slice(Ptr(Struct("m_Email"))), NsEmail, "email", FALSE)>>]

T_m_Email ==
    [tname |-> "Email", fields |-> <<
        AttrFld("Visibility", "", "visibility"),
        CreatedDateFld,
        LastModifiedDateFld,
        SourceFld,
        NsFld("Email", String, NsEmail, "email", FALSE)>>]

T_m_Addresses ==
    [tname |-> "Addresses", fields |-> <<
        NsFld("Addresses", Slice(Ptr(Struct("m_Address"))), NsAddress, "address", FALSE)>>]

T_m_Address ==
    [tname |-> "Address", fields |-> <<
        AttrFld("Visibility", "", "visibility"),
        AttrFld("PutCode", "", "put-code"),
        CreatedDateFld,
        LastModifiedDateFld,
        SourceFld,
        NsFld("Country", String, NsAddress, "country", FALSE)>>]

T_m_Keywords ==
    [tname |-> "Keywords", fields |-> <<
        NsFld("Keywords", Slice(Ptr(Struct("m_Keyword"))), NsKeyword, "keyword", FALSE)>>]

T_m_Keyword ==
    [tname |-> "Keyword", fields |-> <<
        AttrFld("Visibility", "", "visibility"),
        AttrFld("PutCode", "", "put-code"),
        CreatedDateFld,
        LastModifiedDateFld,
        SourceFld,
        NsFld("Content", String, NsKeyword, "content", FALSE)>>]

T_m_ExternalIdentifiers ==
    [tname |-> "ExternalIdentifiers", fields |-> <<
        NsFld("ExternalIdentifiers", Slice(Ptr(Struct("m_ExternalIdentifier"))), NsExternalIdentifier, "external-identifier", FALSE)>>]

T_m_ExternalIdentifier ==
    [tname |-> "ExternalIdentifier", fields |-> <<
        AttrFld("Visibility", "", "visibility"),
        AttrFld("PutCode", "", "put-code"),
        CreatedDateFld,
        LastModifiedDateFld,
        SourceFld,
        NsFld("ExternalIdType", String, NsCommon, "external-id-type", FALSE),
        NsFld("ExternalIdValue", String, NsCommon, "external-id-value", FALSE),
        NsFld("ExternalIdUrl", String, NsCommon, "external-id-url", FALSE)>>]

T_m_Source ==
    [tname |-> "Source", fields |-> <<
        NsFld("SourceOrcid", Ptr(Struct("m_SourceOrcid")), NsCommon, "source-orcid", FALSE),
        NsFld("SourceName", Ptr(Struct("m_SourceName")), NsCommon, "source-name", FALSE)>>]

T_m_SourceOrcid ==
    [tname |-> "SourceOrcid", fields |-> <<
        NsFld("Uri", String, NsCommon, "uri", TRUE),
        NsFld("Path", String, NsCommon, "path", TRUE),
        NsFld("Host", String, NsCommon, "host", TRUE)>>]

T_m_SourceName ==
    [tname |-> "SourceName", fields |-> <<CharDataFld("Value")>>]

\* encoding/xml's Name: the field type of XMLName
T_XmlName ==
    [tname |-> "Name", fields |-> <<
        JsonFld("Space", String, "Space"),
        JsonFld("Local", String, "Local")>>]

\* the type table: what reflection gives the codecs
Types ==
    [TokenResponse |-> T_TokenResponse, OrcidRecord |-> T_OrcidRecord,
     OrcidIdentifier |-> T_OrcidIdentifier, Person |-> T_Person,
     Biography |-> T_Biography, Emails |-> T_Emails, Email |-> T_Email,
     ResearcherUrls |-> T_ResearcherUrls, ResearcherUrl |-> T_ResearcherUrl,
     Name_ |-> T_Name, Value |-> T_Value, Activities |-> T_Activities,
     WorkSummaryGroup |-> T_WorkSummaryGroup, WorkGroup |-> T_WorkGroup,
     WorkSummary |-> T_WorkSummary,
     EmploymentSummaryGroup |-> T_EmploymentSummaryGroup,
     AffiliationGroup |-> T_AffiliationGroup,
     EmploymentSummary |-> T_EmploymentSummary, Org |-> T_Org, Title |-> T_Title,
     LastModified |-> T_LastModified, SearchResponse |-> T_SearchResponse,
     SearchResult |-> T_SearchResult,
     GenericWorkResponse |-> T_GenericWorkResponse, DateYear |-> T_DateYear,
     GenericEmploymentResponse |-> T_GenericEmploymentResponse,
     PutCodeResponse |-> T_PutCodeResponse, UpdateResponse |-> T_UpdateResponse,
     m_Person |-> T_m_Person, m_PersonName |-> T_m_PersonName,
     m_OtherNames |-> T_m_OtherNames, m_OtherName |-> T_m_OtherName,
     m_Biography |-> T_m_Biography, m_ResearcherUrls |-> T_m_ResearcherUrls,
     m_ResearcherUrl |-> T_m_ResearcherUrl, m_Emails |-> T_m_Emails,
     m_Email |-> T_m_Email, m_Addresses |-> T_m_Addresses,
     m_Address |-> T_m_Address, m_Keywords |-> T_m_Keywords,
     m_Keyword |-> T_m_Keyword, m_ExternalIdentifiers |-> T_m_ExternalIdentifiers,
     m_ExternalIdentifier |-> T_m_ExternalIdentifier, m_Source |-> T_m_Source,
     m_SourceOrcid |-> T_m_SourceOrcid, m_SourceName |-> T_m_SourceName,
     Name |-> T_XmlName]

\* the i-th field of struct type n, and the indices of its fields
FieldsOf(n) == Types[n].fields
FieldIdx(n) == 1..Len(Types[n].fields)

RECURSIVE Zero(_)
RECURSIVE ZeroFields(_, _)
\* the zero value of a type
Zero(t) ==
    CASE t.k = "string" -> ""
      [] t.k = "bool" -> FALSE
      [] t.k = "int" -> 0
      [] t.k = "ptr" -> <<>>
      [] t.k = "slice" -> <<>>
      [] t.k = "struct" -> ZeroFields(FieldsOf(t.name), Len(FieldsOf(t.name)))

\* the struct of the zero values of the fields 1..i of fs
ZeroFields(fs, i) ==
    IF i = 1 THEN fs[1].go :> Zero(fs[1].t)
    ELSE ZeroFields(fs, i - 1) @@ (fs[i].go :> Zero(fs[i].t))

\* mutation of IsEmptyValue: a pointer to a zero value counts as empty too
IsEmptyValueDeep(t, v) ==
    CASE t.k = "string" -> v = ""
      [] t.k = "bool" -> v = FALSE
      [] t.k = "int" -> v = 0
      [] t.k = "ptr" -> v = <<>> \/ v[1] = Zero(t.of)
      [] t.k = "slice" -> v = <<>>
      [] t.k = "struct" -> FALSE

\* reflect's isEmptyValue, as omitempty uses it: a struct is never empty
IsEmptyValue(t0, v0) ==
    CHOOSE once \in
        {(
            CASE t.k = "string" -> v = ""
              [] t.k = "bool" -> v = FALSE
              [] t.k = "int" -> v = 0
              [] t.k = "ptr" -> v = <<>>
              [] t.k = "slice" -> v = <<>>
              [] t.k = "struct" -> FALSE
         ) : t \in {t0}, v \in {v0}} : TRUE


(***************************************************************************)
(* encoding/xml, writing.  A document is a sequence of nodes as they stand *)
(* on the wire: names with their literal prefix, namespace declarations as *)
(* attributes, character data and attribute values escaped.                *)
(***************************************************************************)

ElemNode(prefix, local, attrs, kids) ==
    [kind |-> "elem", prefix |-> prefix, local |-> local, attrs |-> attrs,
     kids |-> kids, text |-> ""]
TextNode(text) ==
    [kind |-> "text", prefix |-> "", local |-> "", attrs |-> <<>>, kids |-> <<>>,
     text |-> text]
CommentNode(text) ==
    [kind |-> "comment", prefix |-> "", local |-> "", attrs |-> <<>>, kids |-> <<>>,
     text |-> text]
ProcInstNode(target, text) ==
    [kind |-> "procinst", prefix |-> "", local |-> target, attrs |-> <<>>,
     kids |-> <<>>, text |-> text]
RawAttr(prefix, local, value) == [prefix |-> prefix, local |-> local, value |-> value]

\* xml.Header: <?xml version="1.0" encoding="UTF-8"?>
XmlHeader == ProcInstNode("xml", "version=\"1.0\" encoding=\"UTF-8\"")

EscapeChar(c) ==
    CASE c = "\"" -> "&#34;"
      [] c = "'" -> "&#39;"
      [] c = "&" -> "&amp;"
      [] c = "<" -> "&lt;"
      [] c = ">" -> "&gt;"
      [] c = "\t" -> "&#x9;"
      [] c = "\n" -> "&#xA;"
      [] c = "\r" -> "&#xD;"
      [] OTHER -> c

\* the characters xml.EscapeText replaces
Escaped == {"\"", "'", "&", "<", ">", "\t", "\n", "\r"}

\* the position of the first character of s that is in set cs; 0 when none is
IndexAny(s0, cs0) ==
    CHOOSE once \in
        {(
            IF \E i \in 1..Len(s) : CharAt(s, i) \in cs
            THEN CHOOSE i \in 1..Len(s) :
                    /\ CharAt(s, i) \in cs
                    /\ \A j \in 1..(i - 1) : CharAt(s, j) \notin cs
            ELSE 0
         ) : s \in {s0}, cs \in {cs0}} : TRUE

RECURSIVE EscapeFrom(_, _)
\* s with its characters from position i on escaped, i being 0 or the position
\* of the first one to escape
EscapeFrom(s, i) ==
    IF i = 0 THEN s
    ELSE CHOOSE t \in {SubSeq(s, 1, i - 1) \o EscapeChar(CharAt(s, i))
                            \o EscapeFrom(rest, IndexAny(rest, Escaped)) :
                        rest \in {SubSeq(s, i + 1, Len(s))}} : TRUE

\* xml.EscapeText
EscapeText(s) == CHOOSE t \in {EscapeFrom(x, IndexAny(x, Escaped)) : x \in {s}} : TRUE

\* how the tokenizer splits a written name at its colon (nsname)
SplitName(s0) ==
    CHOOSE once \in
        {(
            LET i == Index(s, ":")
            IN  IF i = 0 \/ i = 1 \/ i = Len(s) \/ Index(SubSeq(s, i + 1, Len(s)), ":") # 0
                THEN [prefix |-> "", local |-> s]
                ELSE [prefix |-> SubSeq(s, 1, i - 1), local |-> SubSeq(s, i + 1, Len(s))]
         ) : s \in {s0}} : TRUE

\* printer.createAttrPrefix: the prefix made up for a namespaced attribute
createAttrPrefix(url0) ==
    CHOOSE once \in
        {(
            LET i == LastIndex(url, "/")
                last == IF i = 0 THEN url ELSE SubSeq(url, i + 1, Len(url))
                named == IF last = "" \/ Contains(last, ":") THEN "_" ELSE last
            IN  IF Len(named) >= 3 /\ ToLower(SubSeq(named, 1, 3)) = "xml"
                THEN "_" \o named ELSE named
         ) : url \in {url0}} : TRUE

\* printer.writeStart: an element of namespace space is written with xmlns="space"
StartElement(space0, local0, attrs0, kids0) ==
    CHOOSE once \in
        {(
            LET n == SplitName(local)
            IN  ElemNode(n.prefix, n.local,
                         (IF space = "" THEN <<>> ELSE <<RawAttr("", "xmlns", EscapeText(space))>>)
                            \o attrs,
                         kids)
         ) : space \in {space0}, local \in {local0}, attrs \in {attrs0}, kids \in {kids0}} : TRUE

\* the text of a simple value
FormatSimple(t, v) ==
    CASE t.k = "string" -> v
      [] t.k = "bool" -> FormatBool(v)
      [] t.k = "int" -> Itoa(v)

\* mutation of xmlMarshalAttr: an attribute in a namespace is not written
xmlMarshalAttrNoSpace(f, v) ==
    IF (f.omit /\ IsEmptyValue(f.t, v)) \/ f.ns # "" THEN <<>>
    ELSE LET n == SplitName(f.name) IN <<RawAttr(n.prefix, n.local, EscapeText(v))>>

\* the attributes one attr field contributes
xmlMarshalAttr(f0, v0) ==
    CHOOSE once \in
        {(
            IF f.omit /\ IsEmptyValue(f.t, v) THEN <<>>
            ELSE IF f.ns = ""
                 THEN LET n == SplitName(f.name) IN <<RawAttr(n.prefix, n.local, EscapeText(v))>>
                 ELSE LET pfx == createAttrPrefix(f.ns)
                      IN  <<RawAttr("xmlns", pfx, EscapeText(f.ns)),
                            RawAttr(pfx, f.name, EscapeText(v))>>
         ) : f \in {f0}, v \in {v0}} : TRUE

RECURSIVE xmlMarshalAttrs(_, _, _)
xmlMarshalAttrs(n0, v0, i0) ==
    CHOOSE once \in
        {(
            IF i > Len(FieldsOf(n)) THEN <<>>
            ELSE LET f == FieldsOf(n)[i]
                 IN  (IF f.mode = "attr" THEN xmlMarshalAttr(f, v[f.go]) ELSE <<>>)
                        \o xmlMarshalAttrs(n, v, i + 1)
         ) : n \in {n0}, v \in {v0}, i \in {i0}} : TRUE

\* the element name of a struct value: the XMLName tag, else the XMLName value,
\* else the field's tag, else the type name
xmlStartName(n0, fname0, v0) ==
    CHOOSE once \in
        {(
            LET xs == {i \in FieldIdx(n) : FieldsOf(n)[i].mode = "xmlname"}
                xf == FieldsOf(n)[CHOOSE i \in xs : TRUE]
            IN  IF xs # {} /\ xf.name # "" THEN [ns |-> xf.ns, name |-> xf.name]
                ELSE IF xs # {} /\ v[xf.go].Local # ""
                     THEN [ns |-> v[xf.go].Space, name |-> v[xf.go].Local]
                ELSE IF fname.name # "" THEN fname
                ELSE [ns |-> "", name |-> Types[n].tname]
         ) : n \in {n0}, fname \in {fname0}, v \in {v0}} : TRUE

RECURSIVE xmlMarshalValue(_, _, _)
RECURSIVE xmlMarshalFields(_, _, _)
RECURSIVE xmlMarshalSlice(_, _, _, _)

\* printer.marshalValue: the nodes written for value v of type t under the name
\* fname = [ns, name] of its field (name "" at the top level)
xmlMarshalValue(t0, fname0, v0) ==
    CHOOSE once \in
        {(
            CASE t.k = "ptr" -> IF v = <<>> THEN <<>> ELSE xmlMarshalValue(t.of, fname, v[1])
              [] t.k = "slice" -> xmlMarshalSlice(t.of, fname, v, 1)
              [] t.k = "struct" ->
                    LET nm == xmlStartName(t.name, fname, v)
                    IN  <<StartElement(nm.ns, nm.name, xmlMarshalAttrs(t.name, v, 1),
                                       xmlMarshalFields(t.name, v, 1))>>
              [] OTHER ->
                    LET txt == EscapeText(FormatSimple(t, v))
                    IN  <<StartElement(fname.ns, fname.name, <<>>,
                                       IF txt = "" THEN <<>> ELSE <<TextNode(txt)>>)>>
         ) : t \in {t0}, fname \in {fname0}, v \in {v0}} : TRUE

xmlMarshalSlice(t0, fname0, v0, i0) ==
    CHOOSE once \in
        {(
            IF i > Len(v) THEN <<>>
            ELSE xmlMarshalValue(t, fname, v[i]) \o xmlMarshalSlice(t, fname, v, i + 1)
         ) : t \in {t0}, fname \in {fname0}, v \in {v0}, i \in {i0}} : TRUE

\* printer.marshalStruct: the children written for the fields i.. of struct n
xmlMarshalFields(n0, v0, i0) ==
    CHOOSE once \in
        {(
            IF i > Len(FieldsOf(n)) THEN <<>>
            ELSE LET f == FieldsOf(n)[i]
                     here ==
                        CASE f.mode = "chardata" ->
                                IF v[f.go] = "" THEN <<>> ELSE <<TextNode(EscapeText(v[f.go]))>>
                          [] f.mode = "elem" ->
                                IF f.omit /\ IsEmptyValue(f.t, v[f.go]) THEN <<>>
                                ELSE xmlMarshalValue(f.t, [ns |-> f.ns, name |-> f.name], v[f.go])
                          [] OTHER -> <<>>
                 IN  here \o xmlMarshalFields(n, v, i + 1)
         ) : n \in {n0}, v \in {v0}, i \in {i0}} : TRUE

\* xml.NewEncoder(w).Encode(v), xml.Marshal(v), xml.MarshalIndent(v, ...): the
\* document element of a value of struct type n
xmlEncode(n, v) == xmlMarshalValue(Struct(n), [ns |-> "", name |-> ""], v)[1]

(***************************************************************************)
(* encoding/xml, reading.  The tokenizer resolves prefixes to namespaces   *)
(* and unescapes; Unmarshal matches elements to fields by namespace and    *)
(* local name.                                                             *)
(***************************************************************************)

Entity(name) ==
    CASE name = "lt" -> "<"
      [] name = "gt" -> ">"
      [] name = "amp" -> "&"
      [] name = "apos" -> "'"
      [] name = "quot" -> "\""
      [] name = "#34" -> "\""
      [] name = "#39" -> "'"
      [] name = "#x9" -> "\t"
      [] name = "#xA" -> "\n"
      [] name = "#xD" -> "\r"
      [] OTHER -> "&" \o name \o ";"

RECURSIVE UnescapeText(_)

\* s, which follows an "&" and has its first ";" at j (0: none), expanded
UnescapeEntity(s, j) ==
    IF j = 0 THEN "&" \o s
    ELSE Entity(SubSeq(s, 1, j - 1)) \o UnescapeText(SubSeq(s, j + 1, Len(s)))

\* s, which has its first "&" at i (0: none), expanded
UnescapeAmp(s, i) ==
    IF i = 0 THEN s
    ELSE SubSeq(s, 1, i - 1)
            \o UnescapeEntity(SubSeq(s, i + 1, Len(s)),
                              IndexAny(SubSeq(s, i + 1, Len(s)), {";"}))

\* the tokenizer's expansion of entities and character references
UnescapeText(s) == UnescapeAmp(s, IndexAny(s, {"&"}))

\* is raw attribute a a namespace declaration
IsNsDecl(a) == a.prefix = "xmlns" \/ (a.prefix = "" /\ a.local = "xmlns")

\* the binding <<prefix, namespace>> declaration a makes
NsBinding(a) == <<IF a.prefix = "xmlns" THEN a.local ELSE "", UnescapeText(a.value)>>

\* the bindings in scope inside an element with attributes attrs: the later wins
pushNs(scope, attrs) ==
    scope \o [i \in 1..Len(SelectSeq(attrs, IsNsDecl)) |->
                NsBinding(SelectSeq(attrs, IsNsDecl)[i])]

\* Decoder.translate: the namespace of a written name
translate(scope, prefix, local, isElementName) ==
    LET bound == {i \in 1..Len(scope) : scope[i][1] = prefix}
    IN  IF prefix = "xmlns" THEN prefix
        ELSE IF prefix = "" /\ ~isElementName THEN ""
        ELSE IF prefix = "xml" THEN "http://www.w3.org/XML/1998/namespace"
        ELSE IF prefix = "" /\ local = "xmlns" THEN ""
        ELSE IF bound # {} THEN scope[CHOOSE i \in bound : \A j \in bound : i >= j][2]
        ELSE prefix

Attr(space, local, value) == [space |-> space, local |-> local, value |-> value]

RECURSIVE Tokenize(_, _)
RECURSIVE TokenizeAll(_, _, _)
\* a node as the decoder reports it: [kind, space, local, attrs, kids, text]
Tokenize(node, scope) ==
    IF node.kind # "elem"
    THEN [kind |-> node.kind, space |-> "", local |-> node.local, attrs |-> <<>>,
          kids |-> <<>>,
          text |-> IF node.kind = "text" THEN UnescapeText(node.text) ELSE node.text]
    ELSE LET sc == pushNs(scope, node.attrs)
         IN  [kind |-> "elem",
              space |-> translate(sc, node.prefix, node.local, TRUE),
              local |-> node.local,
              attrs |-> [i \in 1..Len(node.attrs) |->
                            Attr(translate(sc, node.attrs[i].prefix, node.attrs[i].local, FALSE),
                                 node.attrs[i].local,
                                 UnescapeText(node.attrs[i].value))],
              kids |-> TokenizeAll(node.kids, sc, 1),
              text |-> ""]

TokenizeAll(nodes, scope, i) ==
    IF i > Len(nodes) THEN <<>>
    ELSE <<Tokenize(nodes[i], scope)>> \o TokenizeAll(nodes, scope, i + 1)

RECURSIVE CharData(_, _)
\* the character data directly inside an element (kids i..)
CharData(kids, i) ==
    IF i > Len(kids) THEN ""
    ELSE (IF kids[i].kind = "text" THEN kids[i].text ELSE "") \o CharData(kids, i + 1)

\* mutation of copyValue: a bool is true only when written "1"
copyValueBoolDigit(t, data) ==
    CASE t.k = "string" -> [ok |-> TRUE, val |-> data]
      [] t.k = "bool" -> [ok |-> TRUE, val |-> TrimSpace(data) = "1"]
      [] t.k = "int" ->
            IF data = "" THEN [ok |-> TRUE, val |-> 0] ELSE Atoi(TrimSpace(data))

\* copyValue: a simple value from character data; [ok, val]
copyValue(t, data) ==
    CASE t.k = "string" -> [ok |-> TRUE, val |-> data]
      [] t.k = "bool" ->
            IF data = "" THEN [ok |-> TRUE, val |-> FALSE] ELSE ParseBool(TrimSpace(data))
      [] t.k = "int" ->
            IF data = "" THEN [ok |-> TRUE, val |-> 0] ELSE Atoi(TrimSpace(data))

IsElemNode(node) == node.kind = "elem"

\* does element field f take the element el
FieldMatches(f, el) ==
    /\ f.mode = "elem"
    /\ f.name = el.local
    /\ (f.ns = "" \/ f.ns = el.space)

\* does attr field f take the attribute a
AttrMatches(f, a) ==
    /\ f.mode = "attr"
    /\ f.name = a.local
    /\ (f.ns = "" \/ f.ns = a.space)

\* the largest and the smallest of a non-empty set of numbers
Max(S) == CHOOSE i \in S : \A j \in S : i >= j
Min(S) == CHOOSE i \in S : \A j \in S : i <= j

\* the value attr field f has after the attributes attrs are read in order: that
\* of the last one it takes, else old
SetAttr(f, attrs, old) ==
    IF \E i \in 1..Len(attrs) : AttrMatches(f, attrs[i])
    THEN attrs[Max({i \in 1..Len(attrs) : AttrMatches(f, attrs[i])})].value
    ELSE old

\* the number of the field of fs that takes child el: the first that matches,
\* 0 when none does and el is skipped
FieldFor(fs, el) ==
    IF IsElemNode(el) /\ \E j \in 1..Len(fs) : FieldMatches(fs[j], el)
    THEN Min({j \in 1..Len(fs) : FieldMatches(fs[j], el)})
    ELSE 0

\* the positions, in order, of the children of el that field number j of fs takes
KidsFor(fs, j, kids) ==
    LET Takes(i) == FieldFor(fs, kids[i]) = j
    IN  SelectSeq([i \in 1..Len(kids) |-> i], Takes)

RECURSIVE xmlUnmarshal(_, _, _)
RECURSIVE xmlUnmarshalKids(_, _, _, _, _)
RECURSIVE xmlUnmarshalFields(_, _, _, _)
RECURSIVE FieldValues(_, _, _)

\* after result r for one child, the children at positions at[k..] read into the
\* same field; a failure ends the reading
xmlUnmarshalNext(t, r, kids, at, k) ==
    IF r.ok THEN xmlUnmarshalKids(t, r.val, kids, at, k) ELSE r

\* the children of kids at positions at[k..] read in turn into the value cur of a
\* field of type t; [ok, val]
xmlUnmarshalKids(t, cur, kids, at, k) ==
    IF k > Len(at) THEN [ok |-> TRUE, val |-> cur]
    ELSE xmlUnmarshalNext(t, xmlUnmarshal(t, cur, kids[at[k]]), kids, at, k + 1)

\* what reading element el leaves in field f, which is number j of fs and held
\* cur; [ok, val]
xmlUnmarshalField(fs, j, cur, el) ==
    CASE fs[j].mode = "xmlname" ->
            [ok |-> TRUE, val |-> [Space |-> el.space, Local |-> el.local]]
      [] fs[j].mode = "attr" -> [ok |-> TRUE, val |-> SetAttr(fs[j], el.attrs, cur)]
      [] fs[j].mode = "chardata" -> [ok |-> TRUE, val |-> CharData(el.kids, 1)]
      [] OTHER -> xmlUnmarshalKids(fs[j].t, cur, el.kids, KidsFor(fs, j, el.kids), 1)

\* the results for the fields 1..i of fs, keyed by the Go field names
xmlUnmarshalFields(fs, cur, el, i) ==
    IF i = 1 THEN fs[1].go :> xmlUnmarshalField(fs, 1, cur[fs[1].go], el)
    ELSE xmlUnmarshalFields(fs, cur, el, i - 1)
            @@ (fs[i].go :> xmlUnmarshalField(fs, i, cur[fs[i].go], el))

\* the values of the results rs for the fields 1..i of fs
FieldValues(fs, rs, i) ==
    IF i = 1 THEN fs[1].go :> rs[fs[1].go].val
    ELSE FieldValues(fs, rs, i - 1) @@ (fs[i].go :> rs[fs[i].go].val)

\* the struct read from the results rs of its fields fs; [ok, val]
StructResult(fs, rs) ==
    [ok |-> \A i \in 1..Len(fs) : rs[fs[i].go].ok, val |-> FieldValues(fs, rs, Len(fs))]

\* does the XMLName tag of fs, if it names an element, refuse element el
NameMismatch(fs, el) ==
    \E i \in 1..Len(fs) :
        /\ fs[i].mode = "xmlname"
        /\ fs[i].name # ""
        /\ (fs[i].name # el.local \/ (fs[i].ns # "" /\ fs[i].ns # el.space))

\* a pointer to, and a slice grown by, the value of result r
PtrResult(r) == [ok |-> r.ok, val |-> <<r.val>>]
AppendResult(cur, r) == [ok |-> r.ok, val |-> Append(cur, r.val)]

\* Decoder.unmarshal: element el read into the value cur of type t; [ok, val].
\* Every child goes to the first field that matches it and to no other, so the
\* fields are read one by one, each from the children it takes, in their order.
xmlUnmarshal(t, cur, el) ==
    CASE t.k = "ptr" ->
            PtrResult(xmlUnmarshal(t.of, IF cur = <<>> THEN Zero(t.of) ELSE cur[1], el))
      [] t.k = "slice" -> AppendResult(cur, xmlUnmarshal(t.of, Zero(t.of), el))
      [] t.k = "struct" ->
            IF NameMismatch(FieldsOf(t.name), el) THEN [ok |-> FALSE, val |-> cur]
            ELSE StructResult(FieldsOf(t.name),
                              xmlUnmarshalFields(FieldsOf(t.name), cur, el,
                                                 Len(FieldsOf(t.name))))
      [] OTHER -> copyValue(t, CharData(el.kids, 1))

\* the place where the input stops being XML: it ends inside an element, or a tag
\* is malformed.  The decoder reports a *xml.SyntaxError when it comes there.
SyntaxErrorNode ==
    [kind |-> "syntaxerror", prefix |-> "", local |-> "", attrs |-> <<>>, kids |-> <<>>,
     text |-> "unexpected EOF"]

RECURSIVE HasSyntaxError(_)
\* does the decoder come to a syntax error while it reads element node to its end
HasSyntaxError(node) ==
    \/ node.kind = "syntaxerror"
    \/ \E i \in 1..Len(node.kids) : HasSyntaxError(node.kids[i])

\* xml.Unmarshal(doc, &v) for a zero v of struct type n: the first element of
\* the document is the one read, to its end tag; [ok, val], val the zero value
\* when err is returned
xmlDecode(n, doc) ==
    LET es == {i \in 1..Len(doc) : doc[i].kind = "elem"}
        root == doc[CHOOSE i \in es : \A j \in es : i <= j]
    IN  IF es = {} \/ HasSyntaxError(root) THEN [ok |-> FALSE, val |-> Zero(Struct(n))]
        ELSE xmlUnmarshal(Struct(n), Zero(Struct(n)), Tokenize(root, <<>>))

(***************************************************************************)
(* encoding/json, writing.  A JSON value is [kind, text, keys, kids].      *)
(***************************************************************************)

JsonScalar(kind, text) == [kind |-> kind, text |-> text, keys |-> <<>>, kids |-> <<>>]
JsonNull == JsonScalar("null", "null")

RECURSIVE jsonMarshal(_, _)
RECURSIVE jsonMembers(_, _, _)

\* mutation of jsonMembers: every field is written as if tagged omitempty
jsonMembersOmitEmpty(n, v, i) ==
    IF i > Len(FieldsOf(n)) THEN <<>>
    ELSE LET f == FieldsOf(n)[i]
         IN  (IF f.json = "" \/ IsEmptyValue(f.t, v[f.go]) THEN <<>> ELSE <<i>>)
                \o jsonMembers(n, v, i + 1)

\* the indices, in order, of the fields of v that encoding/json writes
jsonMembers(n0, v0, i0) ==
    CHOOSE once \in
        {(
            IF i > Len(FieldsOf(n)) THEN <<>>
            ELSE LET f == FieldsOf(n)[i]
                 IN  (IF f.json = "" \/ (f.jomit /\ IsEmptyValue(f.t, v[f.go])) THEN <<>> ELSE <<i>>)
                        \o jsonMembers(n, v, i + 1)
         ) : n \in {n0}, v \in {v0}, i \in {i0}} : TRUE

\* json.Marshal
jsonMarshal(t0, v0) ==
    CHOOSE once \in
        {(
            CASE t.k = "string" -> JsonScalar("string", v)
              [] t.k = "bool" -> JsonScalar("bool", FormatBool(v))
              [] t.k = "int" -> JsonScalar("number", Itoa(v))
              [] t.k = "ptr" -> IF v = <<>> THEN JsonNull ELSE jsonMarshal(t.of, v[1])
              [] t.k = "slice" ->
                    IF v = <<>> THEN JsonNull
                    ELSE [kind |-> "array", text |-> "", keys |-> <<>>,
                          kids |-> [i \in 1..Len(v) |-> jsonMarshal(t.of, v[i])]]
              [] t.k = "struct" ->
                    LET ms == jsonMembers(t.name, v, 1)
                    IN  [kind |-> "object", text |-> "",
                         keys |-> [i \in 1..Len(ms) |-> FieldsOf(t.name)[ms[i]].json],
                         kids |-> [i \in 1..Len(ms) |->
                                      jsonMarshal(FieldsOf(t.name)[ms[i]].t,
                                                  v[FieldsOf(t.name)[ms[i]].go])]]
         ) : t \in {t0}, v \in {v0}} : TRUE

\* json.NewEncoder(w).Encode(v) for a value of struct type n
jsonEncode(n, v) == jsonMarshal(Struct(n), v)


(***************************************************************************)
(* The seed data of main.go                                                *)
(***************************************************************************)

NoXMLName == [Space |-> "", Local |-> ""]

\* the demo users of init()
people ==
    <<[orcid |-> "0000-0001-2345-6789", given |-> "Sofia", family |-> "Garcia",
       bio |-> "Sofia Garcia is a researcher in the field of Computer Science."],
      [orcid |-> "0000-0002-1001-2002", given |-> "John", family |-> "Smith",
       bio |-> "John Smith studies Physics."],
      [orcid |-> "0000-0003-3003-4004", given |-> "Wei", family |-> "Chen",
       bio |-> "Wei Chen is a Biologist."],
      [orcid |-> "0000-0004-5005-6006", given |-> "Priya", family |-> "Patel",
       bio |-> "Priya Patel works in Chemistry."],
      [orcid |-> "0000-0005-7007-8008", given |-> "Ahmed", family |-> "Al-Fayed",
       bio |-> "Ahmed Al-Fayed is a Mathematician."],
      [orcid |-> "0000-0006-9009-0000", given |-> "Elena", family |-> "Popov",
       bio |-> "Elena Popov researches History."]>>

MockWorkPutCode == 123456
MockEmploymentPutCode == 789012

Val(s) == [Value |-> s]

\* createMockRecord; now is what time.Now().UnixMilli() returns
createMockRecord(orcid, givenName, familyName, bio, now) ==
    [XMLName |-> NoXMLName,
     OrcidIdentifier |->
        [Uri |-> "https://orcid.org/" \o orcid, Path |-> orcid, Host |-> "orcid.org"],
     Person |->
        [Name |->
            [GivenNames |-> Val(givenName),
             FamilyName |-> Val(familyName),
             CreditName |-> Val(CharAt(givenName, 1) \o ". " \o familyName)],
         Biography |-> <<[Content |-> bio]>>,
         Emails |->
            <<[Email |->
                <<[Email |-> ToLower(givenName) \o "." \o ToLower(familyName) \o "@mock.edu",
                   Verified |-> TRUE,
                   Primary |-> TRUE,
                   Visibility |-> "PUBLIC"]>>]>>,
         ResearcherUrls |->
            <<[ResearcherUrl |->
                <<[UrlName |-> "Personal Website",
                   Url |-> Val("https://" \o ToLower(givenName) \o "."
                                  \o ToLower(familyName) \o ".mock")]>>]>>],
     Activities |->
        [Works |->
            [Group |->
                <<[WorkSummary |->
                    <<[PutCode |-> MockWorkPutCode,
                       Title |-> [Title |-> Val("Mock Paper Title")],
                       Type |-> "journal-article",
                       LastModified |-> [Value |-> now]]>>]>>],
         Employment |->
            [AffiliationGroup |->
                <<[Summaries |->
                    <<[PutCode |-> MockEmploymentPutCode,
                       DepartmentName |-> "Mock Department",
                       RoleTitle |-> "Mock Researcher",
                       Organization |-> [Name |-> "Mock University"]]>>]>>]]]


(***************************************************************************)
(* net/http: requests and the response writer                              *)
(***************************************************************************)

\* a header or query parameter: <<>> when absent, <<value>> when present;
\* Header.Get and Values.Get give "" for an absent one
Get(param) == IF param = <<>> THEN "" ELSE param[1]

\* the request the mux hands to handler: the path is the one the pattern matched
\* with the wildcards orcid and putCode
Request(handler, method, path, orcid, putCode, accept) ==
    [handler |-> handler, method |-> method, path |-> path, orcid |-> orcid,
     putCode |-> putCode, accept |-> accept, redirect_uri |-> <<>>, state |-> <<>>,
     q |-> <<>>, formOK |-> TRUE]

NoRequest == Request("", "", "", "", "", <<>>)

HeaderNames ==
    {"Content-Type", "Location", "Access-Control-Allow-Origin", "X-Content-Type-Options"}

NoHeader ==
    ("Content-Type" :> "") @@ ("Location" :> "") @@ ("Access-Control-Allow-Origin" :> "")
        @@ ("X-Content-Type-Options" :> "")

\* a piece of the body: plain text, the XML prolog, an XML or a JSON document
TextChunk(text) == [kind |-> "text", text |-> text, doc |-> <<>>]
XmlHeaderChunk == [kind |-> "xmlheader", text |-> "", doc |-> <<XmlHeader>>]
XmlChunk(doc) == [kind |-> "xml", text |-> "", doc |-> <<doc>>]
JsonChunk(doc) == [kind |-> "json", text |-> "", doc |-> <<doc>>]

\* the response writer: header is the handler's header map, sent the copy of it
\* taken when the status line is written (what the client receives), status the
\* status code on the wire (0 while none is written), logStatus the status field of
\* the middleware's responseWriter; broken says that the connection is gone and
\* writes fail, failed counts the writes that returned an error, logged holds the
\* messages of slog.Error
NewResponseWriter ==
    [header |-> NoHeader, wroteHeader |-> FALSE, status |-> 0, sent |-> NoHeader,
     body |-> <<>>, logStatus |-> 0, broken |-> FALSE, failed |-> 0, logged |-> <<>>]

StatusOK == 200
StatusCreated == 201
StatusFound == 302
StatusBadRequest == 400
StatusNotFound == 404
StatusInternalServerError == 500

\* w.Header().Set(key, value)
HeaderSet(w, key, value) == [w EXCEPT !.header[key] = value]

\* responseWriter.WriteHeader: records the code and passes it on; the underlying
\* writer takes the first status code only and copies the header map then
WriteHeader(w0, code0) ==
    CHOOSE once \in
        {(
            IF w.wroteHeader THEN [w EXCEPT !.logStatus = code]
            ELSE [w EXCEPT !.logStatus = code, !.wroteHeader = TRUE, !.status = code,
                           !.sent = w.header]
         ) : w \in {w0}, code \in {code0}} : TRUE

\* w.Write: the embedded writer's; a first write without a status writes 200; on
\* a connection that is gone nothing is written and an error is returned
Write(w0, chunk0) ==
    CHOOSE once \in
        {(
            LET w1 == IF w.wroteHeader THEN w
                      ELSE [w EXCEPT !.wroteHeader = TRUE, !.status = StatusOK, !.sent = w.header]
            IN  IF w.broken THEN [w EXCEPT !.failed = @ + 1]
                ELSE [w1 EXCEPT !.body = Append(w1.body, chunk)]
         ) : w \in {w0}, chunk \in {chunk0}} : TRUE

\* slog.Error(msg, "error", err)
LogError(w, msg) == [w EXCEPT !.logged = Append(@, msg)]

\* if err := enc.Encode(data); err != nil { slog.Error(msg, ...) }: the encoder
\* writes the document to w and returns the error of the write
EncodeLogged(w, chunk, msg) ==
    IF w.broken THEN LogError(Write(w, chunk), msg) ELSE Write(w, chunk)

\* http.DetectContentType of the start of a body
DetectContentType(body) ==
    IF body = <<>> THEN ""
    ELSE IF body[1].kind = "xmlheader" THEN "text/xml; charset=utf-8"
    ELSE "text/plain; charset=utf-8"

\* the Content-Type the client receives: the one sent with the status line, or,
\* when none was set by then, the one the server detects from the body
ClientContentType(w) ==
    IF w.sent["Content-Type"] # "" THEN w.sent["Content-Type"]
    ELSE DetectContentType(w.body)

\* http.Error
Error(w0, error0, code0) ==
    CHOOSE once \in
        {(
            LET w1 == HeaderSet(w, "Content-Type", "text/plain; charset=utf-8")
                w2 == HeaderSet(w1, "X-Content-Type-Options", "nosniff")
                w3 == WriteHeader(w2, code)
            IN  Write(w3, TextChunk(error \o "\n"))
         ) : w \in {w0}, error \in {error0}, code \in {code0}} : TRUE

\* the parts of s between its slashes
Segments(s0) ==
    CHOOSE once \in
        {(
            LET cuts == {0, Len(s) + 1} \cup {i \in 1..Len(s) : CharAt(s, i) = "/"}
                cut(k) == CHOOSE c \in cuts : Cardinality({d \in cuts : d < c}) = k - 1
            IN  [k \in 1..(Cardinality(cuts) - 1) |-> SubSeq(s, cut(k) + 1, cut(k + 1) - 1)]
         ) : s \in {s0}} : TRUE

RECURSIVE CleanSegments(_, _, _)
\* path.Clean, over the segments from the i-th on: empty and "." segments are
\* dropped, ".." takes back the segment before it
CleanSegments(segs, i, stack) ==
    IF i > Len(segs) THEN stack
    ELSE IF segs[i] \in {"", "."} THEN CleanSegments(segs, i + 1, stack)
    ELSE IF segs[i] = ".."
    THEN CleanSegments(segs, i + 1,
                       IF stack = <<>> THEN stack ELSE SubSeq(stack, 1, Len(stack) - 1))
    ELSE CleanSegments(segs, i + 1, Append(stack, segs[i]))

RECURSIVE JoinPath(_, _)
JoinPath(segs, i) == IF i > Len(segs) THEN "" ELSE "/" \o segs[i] \o JoinPath(segs, i + 1)

\* path.Clean of a rooted path
Clean(path0) ==
    CHOOSE once \in
        {(
            LET segs == CleanSegments(Segments(path), 1, <<>>)
            IN  IF segs = <<>> THEN "/" ELSE JoinPath(segs, 1)
         ) : path \in {path0}} : TRUE

\* url.Parse(url): has the url a scheme (the text before the first colon, when no
\* slash or question mark stands in it) or a host (after a leading "//")
HasSchemeOrHost(url0) ==
    CHOOSE once \in
        {(
            \/ HasPrefix(url, "//")
            \/ /\ Index(url, ":") > 1
               /\ ~Contains(SubSeq(url, 1, Index(url, ":") - 1), "/")
               /\ ~Contains(SubSeq(url, 1, Index(url, ":") - 1), "?")
         ) : url \in {url0}} : TRUE

\* http.Redirect, the url it redirects to: a url without scheme and host is made a
\* rooted path, relative to the directory of the request path, and cleaned
RedirectURL(r0, url0) ==
    CHOOSE once \in
        {(
            IF HasSchemeOrHost(url) THEN url
            ELSE LET olddir == SubSeq(r.path, 1, LastIndex(r.path, "/"))
                     abs == IF HasPrefix(url, "/") THEN url ELSE olddir \o url
                     q == Index(abs, "?")
                     path == IF q = 0 THEN abs ELSE SubSeq(abs, 1, q - 1)
                     query == IF q = 0 THEN "" ELSE SubSeq(abs, q, Len(abs))
                     cleaned == Clean(path)
                 IN  (IF CharAt(path, Len(path)) = "/" /\ cleaned # "/"
                      THEN cleaned \o "/" ELSE cleaned) \o query
         ) : r \in {r0}, url \in {url0}} : TRUE

\* http.Redirect of GET request r
Redirect(w0, r0, url0, code0) ==
    CHOOSE once \in
        {(
            LET w1 == HeaderSet(w, "Location", RedirectURL(r, url))
                w2 == IF w1.header["Content-Type"] = ""
                      THEN HeaderSet(w1, "Content-Type", "text/html; charset=utf-8") ELSE w1
                w3 == WriteHeader(w2, code)
            IN  Write(w3, TextChunk("<a href=\"" \o EscapeText(RedirectURL(r, url))
                                        \o "\">Found</a>.\n\n"))
         ) : w \in {w0}, r \in {r0}, url \in {url0}, code \in {code0}} : TRUE

\* middleware, before next.ServeHTTP: the CORS header and the wrapping writer
middleware(w) ==
    [HeaderSet(w, "Access-Control-Allow-Origin", "*") EXCEPT !.logStatus = StatusOK]

(***************************************************************************)
(* The content negotiator                                                  *)
(***************************************************************************)

\* mutation of useXML: XML only when the Accept header asks for it
useXMLOnRequest(r) ==
    HasPrefix(r.path, "/v3.0/") /\ Contains(Get(r.accept), "application/xml")

\* mutation of useXML: the method has a say, only a GET is answered in XML
useXMLOnGet(r) ==
    /\ HasPrefix(r.path, "/v3.0/")
    /\ ~Contains(Get(r.accept), "application/json")
    /\ r.method = "GET"

\* writeResponse, the choice of the format
useXML(r) ==
    LET accept == Get(r.accept)
        isV3 == HasPrefix(r.path, "/v3.0/")
    IN  IF isV3
        THEN IF Contains(accept, "application/json") THEN FALSE ELSE TRUE
        ELSE FALSE

\* writeResponse(w, r, data) for data of struct type n
writeResponse(w, r, n, data) ==
    IF useXML(r)
    THEN LET w1 == HeaderSet(w, "Content-Type", "application/xml; charset=utf-8")
             w2 == Write(w1, XmlHeaderChunk)
         IN  EncodeLogged(w2, XmlChunk(xmlEncode(n, data)), "Failed to encode XML response")
    ELSE LET w1 == HeaderSet(w, "Content-Type", "application/json; charset=utf-8")
         IN  EncodeLogged(w1, JsonChunk(jsonEncode(n, data)),
                          "Failed to encode JSON response")


(***************************************************************************)
(* The requests the model serves                                           *)
(***************************************************************************)

DemoOrcid == "0000-0001-2345-6789"

\* path ids: the demo user, another seeded user, one that is not in the store
Orcids == {DemoOrcid, "0000-0002-1001-2002", "0000-0009-9999-9999"}

\* Accept: none, empty, XML only, JSON only, JSON among others
Accepts ==
    {<<>>, <<"">>, <<"application/xml">>, <<"application/json">>,
     <<"text/html, application/json;q=0.9">>}

\* {putCode} path segments: a number and one that is no number
PutCodes == {"123", "abc"}

\* q: none, a plain one, one holding "error", one holding it in another case
Queries == {<<>>, <<"test">>, <<"an error here">>, <<"Error">>}

\* redirect_uri: none, empty, an absolute url, relative ones
RedirectURIs == {<<>>, <<"">>, <<"http://example.com">>, <<"cb">>, <<"../app/cb">>}
States == {<<>>, <<"xyz">>}

TokenRequest(formOK, accept) ==
    [Request("handleToken", "POST", "/oauth/token", "", "", accept)
        EXCEPT !.formOK = formOK]
AuthorizeRequest(redirect_uri, state) ==
    [Request("handleAuthorize", "GET", "/oauth/authorize", "", "", <<>>)
        EXCEPT !.redirect_uri = redirect_uri, !.state = state]
RecordRequest(orcid, accept) ==
    Request("handleGetRecord", "GET", "/v3.0/" \o orcid \o "/record", orcid, "", accept)
PersonRequest(orcid, accept) ==
    Request("handleGetPerson", "GET", "/v3.0/" \o orcid \o "/person", orcid, "", accept)
GetRequest(resource, orcid, putCode, accept) ==
    Request(IF resource = "work" THEN "handleGetWork" ELSE "handleGetEmployment", "GET",
            "/v3.0/" \o orcid \o "/" \o resource \o "/" \o putCode, orcid, putCode, accept)
PostRequest(resource, orcid, accept) ==
    Request(IF resource = "work" THEN "handlePostWork" ELSE "handlePostEmployment", "POST",
            "/v3.0/" \o orcid \o "/" \o resource, orcid, "", accept)
PutRequest(resource, orcid, putCode, accept) ==
    Request(IF resource = "work" THEN "handlePutWork" ELSE "handlePutEmployment", "PUT",
            "/v3.0/" \o orcid \o "/" \o resource \o "/" \o putCode, orcid, putCode, accept)
SearchRequest(q, accept) ==
    [Request("handleSearch", "GET", "/v3.0/search", "", "", accept) EXCEPT !.q = q]

Resources == {"work", "employment"}

\* the routes of main()
AllRequests ==
    {TokenRequest(ok, a) : ok \in BOOLEAN, a \in Accepts}
    \cup {AuthorizeRequest(u, st) : u \in RedirectURIs, st \in States}
    \cup {RecordRequest(o, a) : o \in Orcids, a \in Accepts}
    \cup {PersonRequest(o, a) : o \in Orcids, a \in Accepts}
    \cup UNION {{GetRequest(res, o, c, a) : o \in Orcids, c \in PutCodes, a \in Accepts}
                    : res \in Resources}
    \cup UNION {{PostRequest(res, o, a) : o \in Orcids, a \in Accepts} : res \in Resources}
    \cup UNION {{PutRequest(res, o, c, a) : o \in Orcids, c \in PutCodes, a \in Accepts}
                    : res \in Resources}
    \cup {SearchRequest(q, a) : q \in Queries, a \in Accepts}

\* the requests served concurrently: one per route, and for the work item both
\* GET and PUT, with and without a JSON Accept
ConcurrentRequests ==
    {TokenRequest(TRUE, <<>>),
     AuthorizeRequest(<<"http://example.com">>, <<"xyz">>),
     RecordRequest(DemoOrcid, <<>>),
     PersonRequest(DemoOrcid, <<"application/json">>),
     PostRequest("work", DemoOrcid, <<>>),
     GetRequest("employment", DemoOrcid, "123", <<>>),
     PostRequest("employment", DemoOrcid, <<"application/json">>),
     PutRequest("employment", DemoOrcid, "123", <<>>),
     SearchRequest(<<"test">>, <<>>)}
    \cup {GetRequest("work", DemoOrcid, "123", a) : a \in {<<>>, <<"application/json">>}}
    \cup {PutRequest("work", DemoOrcid, "123", a) : a \in {<<>>, <<"application/json">>}}

(***************************************************************************)
(* The state                                                               *)
(***************************************************************************)

\* goroutines serving requests at the same time
NumWorkers == 2
Workers == 1..NumWorkers

\* the values time.Now().UnixMilli() takes during startup: 0..MaxClock
MaxClock == 1

\* rand.Intn(n): the ends of [0, n)
Intn(n) == {0, n - 1}
RandN == 999999
PutCodeBase == 100000

VARIABLES
    phase,       \* "init" while init() runs, "serving" once main() listens
    initIdx,     \* how many of people init() has seeded
    now,         \* the clock
    env,         \* the environment: [MOAT_PORT, PORT], "" for a variable not set
    addr,        \* the address main() listens on ("" before it does)
    personStore, \* map[string]OrcidRecord
    dataStore,   \* map[string]map[string]map[int][]byte
    storeMutex,  \* sync.RWMutex: [readers, writer]
    pc,          \* per worker: where its handler stands
    req,         \* per worker: the request it serves
    rw,          \* per worker: the response writer
    local,       \* per worker: record, ok of handleGetRecord / handleGetPerson
    resp,        \* per worker: the data handed to writeResponse
    cn,          \* the codecs on their own: the struct type at hand ("" when none)
    trail,       \* values and XML documents, each made from the one before it
    jdoc         \* the JSON encoding of the first value of trail

vars ==
    <<phase, initIdx, now, env, addr, personStore, dataStore, storeMutex, pc, req, rw,
      local, resp, cn, trail, jdoc>>

store == <<personStore, dataStore, storeMutex>>
startup == <<phase, initIdx, now, env, addr>>
workers == <<pc, req, rw, local, resp>>
codec == <<cn, trail, jdoc>>

EmptyMap == [k \in {} |-> 0]

NoLocal == [record |-> Zero(Struct("OrcidRecord")), ok |-> FALSE]

\* data of struct type n
Data(n, data) == [n |-> n, data |-> <<data>>]
NoData == [n |-> "", data |-> <<>>]

\* values of MOAT_PORT and PORT: not set, a port, a port with its colon, a colon
\* alone, a host and a port
Ports == {"", "9090", ":9090", ":", "localhost:9090"}

Envs == [MOAT_PORT : Ports, PORT : Ports]

\* the process as it starts in environment e
InitProcess(e) ==
    /\ env = e
    /\ addr = ""
    /\ phase = "init"
    /\ initIdx = 0
    /\ now = 0
    /\ personStore = EmptyMap
    /\ dataStore = EmptyMap
    /\ storeMutex = [readers |-> {}, writer |-> FALSE]
    /\ pc = [w \in Workers |-> "idle"]
    /\ req = [w \in Workers |-> NoRequest]
    /\ rw = [w \in Workers |-> NewResponseWriter]
    /\ local = [w \in Workers |-> NoLocal]
    /\ resp = [w \in Workers |-> NoData]

\* the process as it starts with neither MOAT_PORT nor PORT set
InitServer == InitProcess([MOAT_PORT |-> "", PORT |-> ""])

Init ==
    /\ InitServer
    /\ cn = ""
    /\ trail = <<>>
    /\ jdoc = <<>>

(***************************************************************************)
(* Startup                                                                 *)
(***************************************************************************)

\* init(): one turn of the loop over people
init_people ==
    /\ phase = "init"
    /\ initIdx < Len(people)
    /\ \E t \in now..MaxClock :
        LET p == people[initIdx + 1]
        IN  /\ now' = t
            /\ personStore' =
                  (p.orcid :> createMockRecord(p.orcid, p.given, p.family, p.bio, t))
                      @@ personStore
            /\ dataStore' =
                  (p.orcid :> [work |-> EmptyMap, employment |-> EmptyMap]) @@ dataStore
    /\ initIdx' = initIdx + 1
    /\ UNCHANGED <<phase, env, addr, storeMutex, workers, codec>>

\* mutation of getPort: PORT is looked at first
getPortPortFirst(e) ==
    IF e.PORT # "" THEN (IF ~HasPrefix(e.PORT, ":") THEN ":" \o e.PORT ELSE e.PORT)
    ELSE IF e.MOAT_PORT # ""
    THEN (IF ~HasPrefix(e.MOAT_PORT, ":") THEN ":" \o e.MOAT_PORT ELSE e.MOAT_PORT)
    ELSE ":8080"

\* getPort(), e holding what os.Getenv returns
getPort(e) ==
    IF e.MOAT_PORT # ""
    THEN (IF ~HasPrefix(e.MOAT_PORT, ":") THEN ":" \o e.MOAT_PORT ELSE e.MOAT_PORT)
    ELSE IF e.PORT # "" THEN (IF ~HasPrefix(e.PORT, ":") THEN ":" \o e.PORT ELSE e.PORT)
    ELSE ":8080"

\* mutation of main: the server listens as soon as the first user is seeded
mainBeforeInit ==
    /\ phase = "init"
    /\ initIdx >= 1
    /\ phase' = "serving"
    /\ addr' = getPort(env)
    /\ UNCHANGED <<initIdx, now, env, store, workers, codec>>

\* main(): the routes are registered and http.ListenAndServe starts
main ==
    /\ phase = "init"
    /\ initIdx = Len(people)
    /\ phase' = "serving"
    /\ addr' = getPort(env)
    /\ UNCHANGED <<initIdx, now, env, store, workers, codec>>

(***************************************************************************)
(* Serving                                                                 *)
(***************************************************************************)

\* the step of worker w from pc value from to pc value to that leaves writer w1
Step(w, from, to, w1) ==
    /\ phase = "serving"
    /\ pc[w] = from
    /\ pc' = [pc EXCEPT ![w] = to]
    /\ rw' = [rw EXCEPT ![w] = w1]

\* the handler at from returns, leaving writer w1
Return(w, from, w1) ==
    /\ Step(w, from, "done", w1)
    /\ UNCHANGED <<startup, store, req, local, resp, codec>>

\* the handler at from, with writer w1, calls writeResponse(w, r, data)
Call(w, from, w1, n, data) ==
    /\ Step(w, from, "writeResponse", w1)
    /\ resp' = [resp EXCEPT ![w] = Data(n, data)]
    /\ UNCHANGED <<startup, store, req, local, codec>>

\* middleware and the mux: request r reaches its handler
ServeHTTP(w, r) ==
    /\ Step(w, "idle", r.handler, middleware(NewResponseWriter))
    /\ req' = [req EXCEPT ![w] = r]
    /\ UNCHANGED <<startup, store, local, resp, codec>>

\* middleware, after next.ServeHTTP: "Request processed" is logged
middleware_done(w) ==
    /\ Step(w, "done", "idle", NewResponseWriter)
    /\ req' = [req EXCEPT ![w] = NoRequest]
    /\ local' = [local EXCEPT ![w] = NoLocal]
    /\ resp' = [resp EXCEPT ![w] = NoData]
    /\ UNCHANGED <<startup, store, codec>>

\* writeResponse, called by a handler, runs and the handler returns
writeResponse_done(w) ==
    /\ Step(w, "writeResponse", "done",
            writeResponse(rw[w], req[w], resp[w].n, resp[w].data[1]))
    /\ UNCHANGED <<startup, store, req, local, resp, codec>>

TokenResponse ==
    [AccessToken |-> "mock-access-token-12345",
     TokenType |-> "bearer",
     RefreshToken |-> "mock-refresh-token-67890",
     ExpiresIn |-> 631138518,
     Scope |-> "/read-limited /activities/update",
     Name |-> "Sofia Garcia",
     ORCID |-> "0000-0001-2345-6789"]

\* mutation of handleToken: the error of r.ParseForm() is ignored
handleTokenLenient(w) ==
    Return(w, "handleToken",
           Write(HeaderSet(rw[w], "Content-Type", "application/json; charset=utf-8"),
                 JsonChunk(jsonEncode("TokenResponse", TokenResponse))))

handleToken(w) ==
    Return(w, "handleToken",
           IF ~req[w].formOK
           THEN Error(rw[w], "Invalid request", StatusBadRequest)
           ELSE Write(HeaderSet(rw[w], "Content-Type", "application/json; charset=utf-8"),
                      JsonChunk(jsonEncode("TokenResponse", TokenResponse))))

\* mutation of AuthorizeTarget: the state parameter is always appended
AuthorizeTargetWithState(redirectURI, state) ==
    redirectURI \o "?code=" \o "mock-auth-code-12345" \o "&state=" \o state

\* the redirect target of handleAuthorize
AuthorizeTarget(redirectURI, state) ==
    redirectURI \o "?code=" \o "mock-auth-code-12345"
        \o (IF state # "" THEN "&state=" \o state ELSE "")

handleAuthorize(w) ==
    Return(w, "handleAuthorize",
           IF Get(req[w].redirect_uri) = ""
           THEN Error(rw[w], "Missing redirect_uri", StatusBadRequest)
           ELSE Redirect(rw[w], req[w],
                         AuthorizeTarget(Get(req[w].redirect_uri), Get(req[w].state)),
                         StatusFound))

\* mutation of RLock: the lock is taken as an exclusive one
RLockExclusive(w, from, to) ==
    /\ Step(w, from, to, rw[w])
    /\ ~storeMutex.writer
    /\ storeMutex.readers = {}
    /\ storeMutex' = [storeMutex EXCEPT !.readers = @ \cup {w}]
    /\ UNCHANGED <<startup, personStore, dataStore, req, local, resp, codec>>

\* storeMutex.RLock()
RLock(w, from, to) ==
    /\ Step(w, from, to, rw[w])
    /\ ~storeMutex.writer
    /\ storeMutex' = [storeMutex EXCEPT !.readers = @ \cup {w}]
    /\ UNCHANGED <<startup, personStore, dataStore, req, local, resp, codec>>

\* mutation of Lookup: after the read the handler starts over
LookupRetry(w, from, to) ==
    /\ Step(w, from, req[w].handler, rw[w])
    /\ local' = [local EXCEPT ![w] =
                    IF req[w].orcid \in DOMAIN personStore
                    THEN [record |-> personStore[req[w].orcid], ok |-> TRUE]
                    ELSE NoLocal]
    /\ UNCHANGED <<startup, store, req, resp, codec>>

\* record, ok := personStore[orcid]
Lookup(w, from, to) ==
    /\ Step(w, from, to, rw[w])
    /\ local' = [local EXCEPT ![w] =
                    IF req[w].orcid \in DOMAIN personStore
                    THEN [record |-> personStore[req[w].orcid], ok |-> TRUE]
                    ELSE NoLocal]
    /\ UNCHANGED <<startup, store, req, resp, codec>>

\* mutation of RUnlock: the lock is kept
RUnlockKept(w, from, to) ==
    /\ Step(w, from, to, rw[w])
    /\ UNCHANGED <<startup, store, req, local, resp, codec>>

\* storeMutex.RUnlock()
RUnlock(w, from, to) ==
    /\ Step(w, from, to, rw[w])
    /\ storeMutex' = [storeMutex EXCEPT !.readers = @ \ {w}]
    /\ UNCHANGED <<startup, personStore, dataStore, req, local, resp, codec>>

\* mutation of handleGetRecord_respond: the zero record is served when the lookup fails
handleGetRecord_respondAlways(w) ==
    Call(w, "handleGetRecord.respond", rw[w], "OrcidRecord", local[w].record)

\* mutation of handleGetPerson_respond: the person of the demo user is served
handleGetPerson_respondDemo(w) ==
    IF ~local[w].ok
    THEN Return(w, "handleGetPerson.respond",
                Error(rw[w], "Person not found", StatusNotFound))
    ELSE Call(w, "handleGetPerson.respond", rw[w], "Person",
              personStore[DemoOrcid].Person)

handleGetRecord_RLock(w) == RLock(w, "handleGetRecord", "handleGetRecord.lookup")
handleGetRecord_lookup(w) == Lookup(w, "handleGetRecord.lookup", "handleGetRecord.RUnlock")
handleGetRecord_RUnlock(w) == RUnlock(w, "handleGetRecord.RUnlock", "handleGetRecord.respond")
handleGetRecord_respond(w) ==
    IF ~local[w].ok
    THEN Return(w, "handleGetRecord.respond",
                Error(rw[w], "Record not found", StatusNotFound))
    ELSE Call(w, "handleGetRecord.respond", rw[w], "OrcidRecord", local[w].record)

handleGetPerson_RLock(w) == RLock(w, "handleGetPerson", "handleGetPerson.lookup")
handleGetPerson_lookup(w) == Lookup(w, "handleGetPerson.lookup", "handleGetPerson.RUnlock")
handleGetPerson_RUnlock(w) == RUnlock(w, "handleGetPerson.RUnlock", "handleGetPerson.respond")
handleGetPerson_respond(w) ==
    IF ~local[w].ok
    THEN Return(w, "handleGetPerson.respond",
                Error(rw[w], "Person not found", StatusNotFound))
    ELSE Call(w, "handleGetPerson.respond", rw[w], "Person", local[w].record.Person)

\* mutation of handleGetWork: the work is served for a stored id only
handleGetWorkOfRecord(w) ==
    IF req[w].orcid \notin DOMAIN personStore
    THEN Return(w, "handleGetWork", Error(rw[w], "Record not found", StatusNotFound))
    ELSE Call(w, "handleGetWork", rw[w], "GenericWorkResponse",
              [XMLName |-> NoXMLName,
               Type |-> "work",
               PutCode |-> Atoi(req[w].putCode).val,
               Title |-> [Title |-> Val("Retrieved Mock Work")],
               PublicationDate |-> [Year |-> Val("2023")]])

handleGetWork(w) ==
    Call(w, "handleGetWork", rw[w], "GenericWorkResponse",
         [XMLName |-> NoXMLName,
          Type |-> "work",
          PutCode |-> Atoi(req[w].putCode).val,
          Title |-> [Title |-> Val("Retrieved Mock Work")],
          PublicationDate |-> [Year |-> Val("2023")]])

\* mutation of Location: the resource is always the work
LocationOfWork(orcid, resource, putCode) ==
    "https://api.orcid.org/v3.0/" \o orcid \o "/work/" \o putCode

\* the Location header of the POST and PUT handlers
Location(orcid, resource, putCode) ==
    "https://api.orcid.org/v3.0/" \o orcid \o "/" \o resource \o "/" \o putCode

\* mutation of handlePost: the commented-out saveToStore(orcid, resource, newPutCode,
\* body) is done
handlePostSaving(w, from, resource, newPutCode) ==
    /\ Step(w, from, "writeResponse",
            WriteHeader(HeaderSet(rw[w], "Location",
                                  Location(req[w].orcid, resource, Itoa(newPutCode))),
                        StatusCreated))
    /\ resp' = [resp EXCEPT ![w] =
                    Data("PutCodeResponse", [XMLName |-> NoXMLName, PutCode |-> newPutCode])]
    /\ dataStore' =
          IF req[w].orcid \in DOMAIN dataStore
          THEN [dataStore EXCEPT ![req[w].orcid][resource] = (newPutCode :> "body") @@ @]
          ELSE dataStore
    /\ UNCHANGED <<startup, personStore, storeMutex, req, local, codec>>

\* handlePostWork and handlePostEmployment, with the put-code drawn
handlePost(w, from, resource, newPutCode) ==
    Call(w, from,
         WriteHeader(HeaderSet(rw[w], "Location",
                               Location(req[w].orcid, resource, Itoa(newPutCode))),
                     StatusCreated),
         "PutCodeResponse", [XMLName |-> NoXMLName, PutCode |-> newPutCode])

\* mutation of handlePut: an update of an id that is not in the store is refused
handlePutKnown(w, from, resource) ==
    IF req[w].orcid \in DOMAIN personStore
    THEN Call(w, from,
              WriteHeader(HeaderSet(rw[w], "Location",
                                    Location(req[w].orcid, resource, req[w].putCode)),
                          StatusOK),
              "UpdateResponse",
              [XMLName |-> NoXMLName, PutCode |-> req[w].putCode, Status |-> "updated"])
    ELSE Return(w, from, Error(rw[w], "Person not found", StatusNotFound))

\* handlePutWork and handlePutEmployment
handlePut(w, from, resource) ==
    Call(w, from,
         WriteHeader(HeaderSet(rw[w], "Location",
                               Location(req[w].orcid, resource, req[w].putCode)),
                     StatusOK),
         "UpdateResponse",
         [XMLName |-> NoXMLName, PutCode |-> req[w].putCode, Status |-> "updated"])

\* mutation of handlePostWork: the put-code is the number drawn, without the base
handlePostWorkFromZero(w) ==
    \E n \in Intn(RandN) : handlePost(w, "handlePostWork", "work", n)

handlePostWork(w) ==
    \E n \in Intn(RandN) : handlePost(w, "handlePostWork", "work", n + PutCodeBase)

handlePutWork(w) == handlePut(w, "handlePutWork", "work")

\* mutation of handleGetEmployment: a put-code that is no number is refused
handleGetEmploymentStrict(w) ==
    IF Atoi(req[w].putCode).ok
    THEN Call(w, "handleGetEmployment", rw[w], "GenericEmploymentResponse",
              [XMLName |-> NoXMLName,
               PutCode |-> Atoi(req[w].putCode).val,
               DepartmentName |-> "Mock Department",
               RoleTitle |-> "Mock Researcher",
               Organization |-> [Name |-> "Mock Org"],
               StartDate |-> [Year |-> Val("2020")]])
    ELSE Return(w, "handleGetEmployment",
                Error(rw[w], "Invalid put-code", StatusBadRequest))

handleGetEmployment(w) ==
    Call(w, "handleGetEmployment", rw[w], "GenericEmploymentResponse",
         [XMLName |-> NoXMLName,
          PutCode |-> Atoi(req[w].putCode).val,
          DepartmentName |-> "Mock Department",
          RoleTitle |-> "Mock Researcher",
          Organization |-> [Name |-> "Mock Org"],
          StartDate |-> [Year |-> Val("2020")]])

handlePostEmployment(w) ==
    \E n \in Intn(RandN) :
        handlePost(w, "handlePostEmployment", "employment", n + PutCodeBase)

handlePutEmployment(w) == handlePut(w, "handlePutEmployment", "employment")

SearchResponse ==
    [XMLName |-> NoXMLName,
     NumFound |-> 1,
     Result |->
        <<[OrcidIdentifier |->
            [Uri |-> "https://orcid.org/0000-0001-2345-6789",
             Path |-> "0000-0001-2345-6789",
             Host |-> "orcid.org"]]>>]

\* mutation of handleSearch: only a query that starts with "error" fails
handleSearchPrefix(w) ==
    IF HasPrefix(Get(req[w].q), "error")
    THEN Return(w, "handleSearch", Error(rw[w], "Search failed", StatusInternalServerError))
    ELSE Call(w, "handleSearch", rw[w], "SearchResponse", SearchResponse)

\* mutation of handleSearch: the return after http.Error is missing
handleSearchNoReturn(w) ==
    Call(w, "handleSearch",
         IF Contains(Get(req[w].q), "error")
         THEN Error(rw[w], "Search failed", StatusInternalServerError) ELSE rw[w],
         "SearchResponse", SearchResponse)

handleSearch(w) ==
    IF Contains(Get(req[w].q), "error")
    THEN Return(w, "handleSearch", Error(rw[w], "Search failed", StatusInternalServerError))
    ELSE Call(w, "handleSearch", rw[w], "SearchResponse", SearchResponse)

\* the handlers, as the mux dispatches them
Handler(w) ==
    \/ handleToken(w)
    \/ handleAuthorize(w)
    \/ handleGetRecord_RLock(w)
    \/ handleGetRecord_lookup(w)
    \/ handleGetRecord_RUnlock(w)
    \/ handleGetRecord_respond(w)
    \/ handleGetPerson_RLock(w)
    \/ handleGetPerson_lookup(w)
    \/ handleGetPerson_RUnlock(w)
    \/ handleGetPerson_respond(w)
    \/ handleGetWork(w)
    \/ handlePostWork(w)
    \/ handlePutWork(w)
    \/ handleGetEmployment(w)
    \/ handlePostEmployment(w)
    \/ handlePutEmployment(w)
    \/ handleSearch(w)
    \/ writeResponse_done(w)
    \/ middleware_done(w)

\* the server: the workers serve ConcurrentRequests at the same time
Next ==
    \/ init_people
    \/ main
    \/ \E w \in Workers : \E r \in ConcurrentRequests : ServeHTTP(w, r)
    \/ \E w \in Workers : Handler(w)

Spec == Init /\ [][Next]_vars

\* the server with one request in flight at a time, over AllRequests
NextAll ==
    \/ init_people
    \/ main
    \/ \E r \in AllRequests : ServeHTTP(1, r)
    \/ Handler(1)

SpecAll == Init /\ [][NextAll]_vars

\* the GET requests for one work or employment item, answered in XML and in JSON
ItemRequests ==
    UNION {{GetRequest(res, o, c, a) :
                o \in Orcids, c \in PutCodes, a \in {<<>>, <<"application/json">>}}
                : res \in Resources}

\* the handlers of the item routes
ItemHandler(w) ==
    \/ handleGetWork(w)
    \/ handleGetEmployment(w)
    \/ writeResponse_done(w)
    \/ middleware_done(w)

\* the server answering work and employment GETs of any id on every worker
NextItems ==
    \/ init_people
    \/ main
    \/ \E w \in Workers : \E r \in ItemRequests : ServeHTTP(w, r)
    \/ \E w \in Workers : ItemHandler(w)

SpecItems == Init /\ [][NextItems]_vars

\* the ids init() seeds
SeededIds == {people[i].orcid : i \in 1..Len(people)}

\* record and person requests for each seeded id and for one that is not stored
LookupRequests ==
    {RecordRequest(o, <<>>) : o \in SeededIds \cup {"0000-0009-9999-9999"}}
    \cup {PersonRequest(o, <<"application/json">>) : o \in SeededIds \cup {"0000-0009-9999-9999"}}

\* the handlers of the record and person routes
LookupHandler(w) ==
    \/ handleGetRecord_RLock(w)
    \/ handleGetRecord_lookup(w)
    \/ handleGetRecord_RUnlock(w)
    \/ handleGetRecord_respond(w)
    \/ handleGetPerson_RLock(w)
    \/ handleGetPerson_lookup(w)
    \/ handleGetPerson_RUnlock(w)
    \/ handleGetPerson_respond(w)
    \/ writeResponse_done(w)
    \/ middleware_done(w)

\* the server answering record and person requests of any id on every worker
NextLookup ==
    \/ init_people
    \/ main
    \/ \E w \in Workers : \E r \in LookupRequests : ServeHTTP(w, r)
    \/ \E w \in Workers : LookupHandler(w)

SpecLookup == Init /\ [][NextLookup]_vars

\* the server of Spec under a fair scheduler: a handler goroutine that can take a
\* step is not left waiting forever; requests need not arrive
SpecFair == Spec /\ \A w \in Workers : WF_vars(Handler(w))

\* the process starting in each environment
InitPort ==
    /\ \E e \in Envs : InitProcess(e)
    /\ cn = ""
    /\ trail = <<>>
    /\ jdoc = <<>>

NextPort == init_people \/ main

SpecPort == InitPort /\ [][NextPort]_vars

\* the client of worker w goes away while its request is served: from now on the
\* writes to it fail
disconnect(w) ==
    /\ pc[w] \notin {"idle", "done"}
    /\ ~rw[w].broken
    /\ Step(w, pc[w], pc[w], [rw[w] EXCEPT !.broken = TRUE])
    /\ UNCHANGED <<startup, store, req, local, resp, codec>>

\* the server with one request in flight at a time, whose client may go away
NextWrite ==
    \/ init_people
    \/ main
    \/ \E r \in AllRequests : ServeHTTP(1, r)
    \/ disconnect(1)
    \/ Handler(1)

SpecWrite == Init /\ [][NextWrite]_vars

\* a work request and the employment request of the same method, id, put-code and
\* Accept reach their handlers, the first on worker 1, the second on worker 2
ServePair(method, orcid, putCode, accept) ==
    LET r(res) == IF method = "GET" THEN GetRequest(res, orcid, putCode, accept)
                  ELSE IF method = "POST" THEN PostRequest(res, orcid, accept)
                  ELSE PutRequest(res, orcid, putCode, accept)
    IN  /\ phase = "serving"
        /\ pc[1] = "idle" /\ pc[2] = "idle"
        /\ pc' = [pc EXCEPT ![1] = r("work").handler, ![2] = r("employment").handler]
        /\ rw' = [rw EXCEPT ![1] = middleware(NewResponseWriter),
                            ![2] = middleware(NewResponseWriter)]
        /\ req' = [req EXCEPT ![1] = r("work"), ![2] = r("employment")]
        /\ UNCHANGED <<startup, store, local, resp, codec>>

\* the handlers of the work and employment routes
PairHandler(w) ==
    \/ handleGetWork(w)
    \/ handlePostWork(w)
    \/ handlePutWork(w)
    \/ handleGetEmployment(w)
    \/ handlePostEmployment(w)
    \/ handlePutEmployment(w)
    \/ writeResponse_done(w)
    \/ middleware_done(w)

\* the server answering each work request side by side with its employment
\* counterpart
NextPair ==
    \/ init_people
    \/ main
    \/ \E method \in {"GET", "POST", "PUT"}, o \in Orcids, c \in PutCodes, a \in Accepts :
            ServePair(method, o, c, a)
    \/ \E w \in Workers : PairHandler(w)

SpecPair == Init /\ [][NextPair]_vars

(***************************************************************************)
(* The codecs on their own: a value or a document goes through             *)
(* xml.Marshal / xml.MarshalIndent and xml.Unmarshal in turn, as           *)
(* TestPersonRoundTrip does with testdata/person.xml.                      *)
(***************************************************************************)

RECURSIVE Spaces(_)
Spaces(n) == IF n = 0 THEN "" ELSE " " \o Spaces(n - 1)

HasElem(kids) == \E i \in 1..Len(kids) : IsElemNode(kids[i])

RECURSIVE Indent(_, _)
RECURSIVE IndentKids(_, _, _)
\* printer.writeIndent with prefix "" and indent "  ": a line break and the
\* indentation before every child element and before the end tag that follows one
Indent(node, depth) ==
    IF IsElemNode(node) /\ HasElem(node.kids)
    THEN [node EXCEPT !.kids = IndentKids(node.kids, depth + 1, 1)
                                  \o <<TextNode("\n" \o Spaces(2 * depth))>>]
    ELSE node

IndentKids(kids, depth, i) ==
    IF i > Len(kids) THEN <<>>
    ELSE (IF IsElemNode(kids[i])
          THEN <<TextNode("\n" \o Spaces(2 * depth)), Indent(kids[i], depth)>>
          ELSE <<kids[i]>>)
            \o IndentKids(kids, depth, i + 1)

\* xml.MarshalIndent(v, "", "  ") when indent, xml.Marshal(v) otherwise
xmlMarshalIndent(indent, node) == IF indent THEN Indent(node, 0) ELSE node

\* an element, an attribute and a text-only element by their written names
El(qname, attrs, kids) ==
    ElemNode(SplitName(qname).prefix, SplitName(qname).local, attrs, kids)
At(qname, value) == RawAttr(SplitName(qname).prefix, SplitName(qname).local, value)
Leaf(qname, text) == El(qname, <<>>, IF text = "" THEN <<>> ELSE <<TextNode(text)>>)

\* the namespace declarations of a person document
PersonXmlns ==
    <<At("xmlns:common", NsCommon), At("xmlns:person", NsPerson),
      At("xmlns:personal-details", NsPersonalDetails),
      At("xmlns:other-name", NsOtherName),
      At("xmlns:researcher-url", NsResearcherUrl), At("xmlns:email", NsEmail),
      At("xmlns:address", NsAddress), At("xmlns:keyword", NsKeyword),
      At("xmlns:external-identifier", NsExternalIdentifier), At("xmlns:xsi", NsXsi)>>

DocSource ==
    El("common:source", <<>>,
       <<El("common:source-orcid", <<>>,
            <<Leaf("common:uri", "https://orcid.org/0000-0001-2345-6789"),
              Leaf("common:path", "0000-0001-2345-6789"),
              Leaf("common:host", "orcid.org")>>),
         Leaf("common:source-name", "Sofia Garcia")>>)

DocDates ==
    <<Leaf("common:created-date", "2024-01-01T00:00:00.000Z"),
      Leaf("common:last-modified-date", "2024-02-02T00:00:00.000Z")>>

\* the layout between two elements of a document: a line break, or a line break
\* and a comment
Gap(o) ==
    IF o.comment THEN <<TextNode("\n    "), CommentNode(" mock data ")>>
    ELSE <<TextNode("\n    ")>>

DocName(o) ==
    El("person:name", <<At("visibility", "public")>>,
       DocDates
        \o <<Leaf("personal-details:given-names", IF o.emptyGiven THEN "" ELSE "Sofia"),
             Leaf("personal-details:family-name", "Garcia"),
             Leaf("personal-details:credit-name", "S. Garcia")>>)

DocBiography(o) ==
    El(IF o.altPrefix THEN "p:biography" ELSE "person:biography",
       (IF o.altPrefix THEN <<At("xmlns:p", NsPerson)>> ELSE <<>>)
        \o <<At("visibility", "public")>>,
       <<Leaf("personal-details:content", "Research &amp; &lt;development&gt;")>>)

DocResearcherUrl(putCode, name, url) ==
    El("researcher-url:researcher-url",
       <<At("put-code", putCode), At("visibility", "public")>>,
       DocDates \o <<DocSource, Leaf("researcher-url:url-name", name),
                     Leaf("researcher-url:url", url)>>)

DocResearcherUrls(o) ==
    El("researcher-url:researcher-urls", <<>>,
       <<Leaf("common:last-modified-date", "2024-02-02T00:00:00.000Z")>>
        \o Gap(o)
        \o <<DocResearcherUrl("41", "Personal Website", "https://sofia.garcia.mock")>>
        \o Gap(o)
        \o <<DocResearcherUrl("42", "Lab", "https://lab.mock/?a=1&amp;b=2")>>)

DocEmails(o) ==
    El("email:emails", <<>>,
       <<El("email:email",
            <<At("visibility", "public")>>
                \o (IF o.extraAttr THEN <<At("verified", "true")>> ELSE <<>>),
            <<DocSource, Leaf("email:email", "sofia.garcia@mock.edu")>>)>>)

DocExtras(o) ==
    <<El("address:addresses", <<>>,
         <<El("address:address", <<At("visibility", "public"), At("put-code", "7")>>,
              <<Leaf("address:country", "US")>>)>>),
      El("keyword:keywords", <<>>,
         <<El("keyword:keyword", <<At("put-code", "8")>>,
              <<Leaf("keyword:content", "testing")>>)>>),
      El("external-identifier:external-identifiers", <<>>,
         <<El("external-identifier:external-identifier", <<At("put-code", "9")>>,
              <<Leaf("common:external-id-type", "Scopus Author ID"),
                Leaf("common:external-id-value", "12345"),
                Leaf("common:external-id-url", "https://scopus.mock/12345")>>)>>)>>

DocOtherNames(o) ==
    El("other-name:other-names", <<>>,
       <<El("other-name:other-name", <<At("visibility", "public"), At("put-code", "5")>>,
            <<Leaf("other-name:content", "S. M. Garcia")>>)>>)

\* a person document in the layout ORCID serves; o says what it holds
PersonDoc(o) ==
    <<ProcInstNode("xml", "version=\"1.0\" encoding=\"UTF-8\" standalone=\"yes\""),
      El("person:person",
         <<At("path", "/0000-0001-2345-6789/person")>> \o PersonXmlns
            \o <<At("xsi:schemaLocation", "http://www.orcid.org/ns/person ../person-3.0.xsd")>>,
         Gap(o)
            \o <<Leaf("common:last-modified-date", "2024-02-02T00:00:00.000Z")>>
            \o Gap(o)
            \o (IF o.swapped THEN <<DocBiography(o), DocName(o)>> ELSE <<DocName(o)>>)
            \o (IF o.extras THEN <<DocOtherNames(o)>> ELSE <<>>)
            \o (IF o.swapped THEN <<>> ELSE <<DocBiography(o)>>)
            \o Gap(o)
            \o <<DocResearcherUrls(o), DocEmails(o)>>
            \o (IF o.extras THEN DocExtras(o) ELSE <<>>)
            \o <<TextNode("\n")>>)>>

\* what a document may hold: the long tail of sections, comments, a prefix of
\* its own on an inner element; an empty given-names element, an attribute and
\* an order of elements that models.Person does not declare
DocOptions ==
    [extras : BOOLEAN, comment : BOOLEAN, altPrefix : BOOLEAN,
     emptyGiven : BOOLEAN, extraAttr : BOOLEAN, swapped : BOOLEAN]

PersonDocs == {PersonDoc(o) : o \in DocOptions}

\* the plain document: no option taken
PlainDoc ==
    [extras |-> FALSE, comment |-> FALSE, altPrefix |-> FALSE, emptyGiven |-> FALSE,
     extraAttr |-> FALSE, swapped |-> FALSE]

\* a person document that ends inside its biography
TruncatedDoc ==
    <<El("person:person", PersonXmlns,
         <<DocName(PlainDoc),
           El("person:biography", <<At("visibility", "public")>>,
              <<El("personal-details:content", <<>>,
                   <<TextNode("Research"), SyntaxErrorNode>>)>>)>>)>>

\* a person document that holds an element of a namespace models.Person has no
\* field for, declared or not
UnknownNamespaceDoc(declared) ==
    <<El("person:person",
         PersonXmlns \o (IF declared THEN <<At("xmlns:foo", "http://example.org/ns/foo")>>
                         ELSE <<>>),
         <<DocName(PlainDoc),
           El("foo:bar", <<>>, <<Leaf("foo:baz", "1")>>),
           DocBiography(PlainDoc)>>)>>

\* a person document without a name, and one whose email entry has no address
MissingNameDoc ==
    <<El("person:person", PersonXmlns, <<DocBiography(PlainDoc), DocEmails(PlainDoc)>>)>>
MissingEmailDoc ==
    <<El("person:person", PersonXmlns,
         <<DocName(PlainDoc),
           El("email:emails", <<>>,
              <<El("email:email", <<At("visibility", "public")>>, <<DocSource>>)>>)>>)>>

\* a document that is no XML at all
NoXmlDoc == <<SyntaxErrorNode>>

FaultyDocs ==
    {TruncatedDoc, NoXmlDoc, UnknownNamespaceDoc(TRUE), UnknownNamespaceDoc(FALSE),
     MissingNameDoc, MissingEmailDoc}

\* the full records the seed data produces
FullRecords ==
    {createMockRecord(people[i].orcid, people[i].given, people[i].family, people[i].bio, t) :
        i \in 1..Len(people), t \in 0..MaxClock}

\* the states of an optional sub-structure: absent, present and empty, present
Optional(empty, full) == {<<>>, <<empty>>, <<full>>}

\* persons with every combination of the optional sub-structures
PersonVariants ==
    {[Name |->
        [GivenNames |-> Val("Sofia"), FamilyName |-> Val("Garcia"),
         CreditName |-> Val("S. Garcia")],
      Biography |-> b, Emails |-> e, ResearcherUrls |-> u] :
        b \in Optional([Content |-> ""], [Content |-> "R&D <lab>"]),
        e \in Optional([Email |-> <<>>],
                       [Email |-> <<[Email |-> "sofia.garcia@mock.edu", Verified |-> TRUE,
                                     Primary |-> FALSE, Visibility |-> "PUBLIC"]>>]),
        u \in Optional([ResearcherUrl |-> <<>>],
                       [ResearcherUrl |->
                            <<[UrlName |-> "Personal Website",
                               Url |-> Val("https://sofia.garcia.mock")],
                              [UrlName |-> "Lab", Url |-> Val("https://lab.mock")]>>])}

\* an entry of trail
ValueItem(r) == [kind |-> "value", ok |-> r.ok, val |-> <<r.val>>, doc |-> <<>>]
DocItem(doc) == [kind |-> "doc", ok |-> TRUE, val |-> <<>>, doc |-> doc]

\* how many values and documents are made from one another
MaxTrail == 4

InitCodec ==
    /\ InitServer
    /\ jdoc = <<>>
    /\ \/ \E v \in FullRecords :
            cn = "OrcidRecord" /\ trail = <<ValueItem([ok |-> TRUE, val |-> v])>>
       \/ \E v \in PersonVariants :
            cn = "Person" /\ trail = <<ValueItem([ok |-> TRUE, val |-> v])>>
       \/ \E d \in PersonDocs :
            cn = "m_Person" /\ trail = <<DocItem(d)>>

\* xml.Marshal / xml.MarshalIndent of the value last obtained
Marshal ==
    /\ Len(trail) < MaxTrail
    /\ trail[Len(trail)].kind = "value"
    /\ trail[Len(trail)].ok
    /\ \E indent \in BOOLEAN :
        trail' = Append(trail,
                    DocItem(<<xmlMarshalIndent(indent,
                                xmlEncode(cn, trail[Len(trail)].val[1]))>>))
    /\ UNCHANGED <<startup, store, workers, cn, jdoc>>

\* xml.Unmarshal of the document last obtained into a zero value
Unmarshal ==
    /\ Len(trail) < MaxTrail
    /\ trail[Len(trail)].kind = "doc"
    /\ trail' = Append(trail, ValueItem(xmlDecode(cn, trail[Len(trail)].doc)))
    /\ UNCHANGED <<startup, store, workers, cn, jdoc>>

\* json.Marshal of the value the trail starts with
MarshalJSON ==
    /\ jdoc = <<>>
    /\ trail[1].kind = "value"
    /\ jdoc' = <<jsonEncode(cn, trail[1].val[1])>>
    /\ UNCHANGED <<startup, store, workers, cn, trail>>

NextCodec == Marshal \/ Unmarshal \/ MarshalJSON

SpecCodec == InitCodec /\ [][NextCodec]_vars

\* xml.Unmarshal into models.Person of person documents, sound and faulty, and
\* xml.Marshal of what it gives
InitDecode ==
    /\ InitServer
    /\ jdoc = <<>>
    /\ cn = "m_Person"
    /\ \E d \in PersonDocs \cup FaultyDocs : trail = <<DocItem(d)>>

NextDecode == Marshal \/ Unmarshal

SpecDecode == InitDecode /\ [][NextDecode]_vars

(***************************************************************************)
(* Semantic comparison of XML documents, as models/person_test.go does it  *)
(***************************************************************************)

\* the printable ASCII characters a name or a namespace is written with, in byte
\* order
Ascii ==
    " !\"#$%&'()*+,-./0123456789:;<=>?@ABCDEFGHIJKLMNOPQRSTUVWXYZ[\\]^_abcdefghijklmnopqrstuvwxyz{|}~"

\* a < b on Go strings
StringLess(a, b) ==
    \E k \in 1..Len(b) :
        /\ k <= Len(a) + 1
        /\ SubSeq(a, 1, k - 1) = SubSeq(b, 1, k - 1)
        /\ (k = Len(a) + 1 \/ Index(Ascii, CharAt(a, k)) < Index(Ascii, CharAt(b, k)))

\* the attributes normalizeAttrs leaves out
IsXmlnsAttr(a) == a.space = "xmlns" \/ a.local = "xmlns" \/ HasPrefix(a.local, "xmlns:")

AttrKey(a) == a.space \o "|" \o a.local

\* normalizeAttrs: the namespace declarations dropped, the rest sorted by key
\* (attributes of equal keys keep their order)
normalizeAttrs(attrs) ==
    LET Kept(a) == ~IsXmlnsAttr(a)
        out == SelectSeq(attrs, Kept)
        Before(i, j) ==
            \/ StringLess(AttrKey(out[i]), AttrKey(out[j]))
            \/ (AttrKey(out[i]) = AttrKey(out[j]) /\ i < j)
        Place(j) == 1 + Cardinality({i \in 1..Len(out) : Before(i, j)})
    IN  [p \in 1..Len(out) |-> out[CHOOSE j \in 1..Len(out) : Place(j) = p]]

attrsEqual(attrs1, attrs2) ==
    LET a1 == normalizeAttrs(attrs1)
        a2 == normalizeAttrs(attrs2)
    IN  /\ Len(a1) = Len(a2)
        /\ \A i \in 1..Len(a1) :
            /\ a1[i].space = a2[i].space
            /\ a1[i].local = a2[i].local
            /\ a1[i].value = a2[i].value

\* the tokens Decoder.Token reports: [kind, space, local, attrs, text]
StartElement_(el) ==
    [kind |-> "start", space |-> el.space, local |-> el.local, attrs |-> el.attrs,
     text |-> ""]
EndElement_(el) ==
    [kind |-> "end", space |-> el.space, local |-> el.local, attrs |-> <<>>, text |-> ""]

RECURSIVE Tokens(_)
RECURSIVE TokensAll(_, _)
\* the token stream of a node the tokenizer resolved
Tokens(node) ==
    IF node.kind = "elem"
    THEN <<StartElement_(node)>> \o TokensAll(node.kids, 1) \o <<EndElement_(node)>>
    ELSE <<[kind |-> node.kind, space |-> "", local |-> node.local, attrs |-> <<>>,
            text |-> node.text]>>

TokensAll(nodes, i) ==
    IF i > Len(nodes) THEN <<>> ELSE Tokens(nodes[i]) \o TokensAll(nodes, i + 1)

\* nextSignificantToken: comments, processing instructions, directives and
\* whitespace-only character data are passed over
Significant(tok) ==
    /\ tok.kind \notin {"comment", "procinst", "directive"}
    /\ ~(tok.kind = "text" /\ TrimSpace(tok.text) = "")

tokensEqual(t1, t2) ==
    CASE t1.kind = "start" ->
            /\ t2.kind = "start"
            /\ t1.space = t2.space
            /\ t1.local = t2.local
            /\ attrsEqual(t1.attrs, t2.attrs)
      [] t1.kind = "end" ->
            t2.kind = "end" /\ t1.space = t2.space /\ t1.local = t2.local
      [] t1.kind = "text" ->
            t2.kind = "text" /\ TrimSpace(t1.text) = TrimSpace(t2.text)
      [] OTHER -> FALSE

\* the significant tokens of document xml
SignificantTokens(xml) == SelectSeq(TokensAll(TokenizeAll(xml, <<>>, 1), 1), Significant)

\* assertXMLEqual gives no error: both streams end together and match pairwise
assertXMLEqual(xml1, xml2) ==
    LET s1 == SignificantTokens(xml1)
        s2 == SignificantTokens(xml2)
    IN  /\ Len(s1) = Len(s2)
        /\ \A i \in 1..Len(s1) : tokensEqual(s1[i], s2[i])

(***************************************************************************)
(* What the properties speak of                                            *)
(***************************************************************************)

\* worker w has answered its request through writeResponse
Negotiated(w) == pc[w] = "done" /\ resp[w].n # ""

\* the format of the document a response ends with: "xml" or "json"
Format(w1) == w1.body[Len(w1.body)].kind

\* the document a response ends with
Payload(w1) == w1.body[Len(w1.body)].doc[1]

MediaType(format) ==
    IF format = "xml" THEN "application/xml; charset=utf-8"
    ELSE "application/json; charset=utf-8"

\* the body writeResponse writes for value v of type n in the given format
Body(format, n, v) ==
    IF format = "xml" THEN <<XmlHeaderChunk, XmlChunk(xmlEncode(n, v))>>
    ELSE <<JsonChunk(jsonEncode(n, v))>>

\* has the response a document (a record body) in it
HasDocument(w1) == \E i \in 1..Len(w1.body) : w1.body[i].kind \in {"xml", "json"}

RECURSIVE JsonLeaves(_)
\* the non-null scalar leaf values of a JSON value, as text
JsonLeaves(j) ==
    IF j.kind \in {"object", "array"}
    THEN UNION {JsonLeaves(j.kids[i]) : i \in 1..Len(j.kids)}
    ELSE IF j.kind = "null" THEN {} ELSE {j.text}

RECURSIVE XmlLeaves(_)
\* the scalar leaf values of a resolved XML element: its attribute values and the
\* character data of the elements that hold no element
XmlLeaves(el) ==
    {el.attrs[i].value : i \in {k \in 1..Len(el.attrs) : ~IsXmlnsAttr(el.attrs[k])}}
        \cup (IF HasElem(el.kids)
              THEN UNION {XmlLeaves(el.kids[i]) :
                            i \in {k \in 1..Len(el.kids) : IsElemNode(el.kids[k])}}
              ELSE {CharData(el.kids, 1)})

\* has element el a child element of local name name
HasKid(el, name) ==
    \E i \in 1..Len(el.kids) : IsElemNode(el.kids[i]) /\ el.kids[i].local = name

\* has JSON object j the key key
HasKey(j, key) == \E i \in 1..Len(j.keys) : j.keys[i] = key

RECURSIVE BaseType(_)
\* the type behind pointers and slices
BaseType(t) == IF t.k \in {"ptr", "slice"} THEN BaseType(t.of) ELSE t

RECURSIVE Conforms(_, _)
RECURSIVE ConformsField(_, _)
\* Element el, as resolved by the tokenizer, is written in the vocabulary of struct
\* type n: every attribute but a namespace declaration is taken by one attr field
\* and is not empty; every child element is taken by a field, the children come in
\* the order of the fields that take them, and only a slice field takes several;
\* character data stands only in elements that hold nothing else.
Conforms(n, el) ==
    LET fs == FieldsOf(n)
        kids == el.kids
        elems == {i \in 1..Len(kids) : IsElemNode(kids[i])}
        hasCharData == \E j \in 1..Len(fs) : fs[j].mode = "chardata"
    IN  /\ ~NameMismatch(fs, el)
        /\ \A i \in 1..Len(el.attrs) :
            \/ IsXmlnsAttr(el.attrs[i])
            \/ /\ el.attrs[i].value # ""
               /\ Cardinality({j \in 1..Len(fs) : AttrMatches(fs[j], el.attrs[i])}) = 1
        /\ \A j \in 1..Len(fs) :
            Cardinality({i \in 1..Len(el.attrs) : AttrMatches(fs[j], el.attrs[i])}) <= 1
        /\ \A i \in elems :
            /\ FieldFor(fs, kids[i]) # 0
            /\ ConformsField(fs[FieldFor(fs, kids[i])], kids[i])
        /\ \A i, k \in elems :
            i < k =>
                \/ FieldFor(fs, kids[i]) < FieldFor(fs, kids[k])
                \/ /\ FieldFor(fs, kids[i]) = FieldFor(fs, kids[k])
                   /\ fs[FieldFor(fs, kids[i])].t.k = "slice"
        /\ IF hasCharData
           THEN Len(kids) <= 1 /\ elems = {} /\ \A i \in 1..Len(kids) : kids[i].kind = "text"
           ELSE \A i \in 1..Len(kids) :
                    kids[i].kind = "text" => TrimSpace(kids[i].text) = ""

\* the child el of a conforming element suits the field f that takes it
ConformsField(f, el) ==
    IF BaseType(f.t).k = "struct" THEN Conforms(BaseType(f.t).name, el)
    ELSE /\ \A i \in 1..Len(el.attrs) : IsXmlnsAttr(el.attrs[i])
         /\ Len(el.kids) <= 1
         /\ \A i \in 1..Len(el.kids) : el.kids[i].kind = "text"
         /\ (f.omit => CharData(el.kids, 1) # "")

\* the document element of document doc, resolved
Root(doc) ==
    Tokenize(doc[Min({i \in 1..Len(doc) : doc[i].kind = "elem"})], <<>>)

(***************************************************************************)
(* Content negotiation                                                     *)
(***************************************************************************)

\* C1: a request under /v3.0/ that writeResponse answers gets JSON if and only if
\* its Accept header contains "application/json", and XML in every other case: no
\* header, an empty one, one naming XML or other types only.
C1_JsonIffAcceptNamesJson ==
    \A w \in Workers :
        Negotiated(w) /\ HasPrefix(req[w].path, "/v3.0/") =>
            /\ Format(rw[w]) \in {"json", "xml"}
            /\ Format(rw[w]) = "json" <=> Contains(Get(req[w].accept), "application/json")
            /\ rw[w].header["Content-Type"] = MediaType(Format(rw[w]))

\* a request without an Accept header has been answered in XML
C1_NoAcceptAnsweredInXml ==
    \E w \in Workers :
        /\ Negotiated(w)
        /\ HasPrefix(req[w].path, "/v3.0/")
        /\ req[w].accept = <<>>
        /\ Format(rw[w]) = "xml"

\* C2: the format depends on the path and the Accept header only: two answered
\* requests of the same path and Accept header have the same format, whatever
\* their methods, the data served, the store and the requests served before or
\* at the same time.
C2_SamePathAndAcceptSameFormat ==
    \A w1, w2 \in Workers :
        /\ Negotiated(w1)
        /\ Negotiated(w2)
        /\ req[w1].path = req[w2].path
        /\ req[w1].accept = req[w2].accept
        => Format(rw[w1]) = Format(rw[w2])

\* a GET and a PUT of the same path and Accept header stand answered together
C2_GetAndPutAnsweredTogether ==
    \E w1, w2 \in Workers :
        /\ Negotiated(w1)
        /\ Negotiated(w2)
        /\ req[w1].path = req[w2].path
        /\ req[w1].accept = req[w2].accept
        /\ req[w1].method = "GET"
        /\ req[w2].method = "PUT"
        /\ resp[w1] # resp[w2]

\* C3: every response written through writeResponse, those of POST and PUT on work
\* and employment included, reaches the client with the Content-Type of the chosen
\* format, and an XML body is the prolog, once, and then the document.
C3_ContentTypeReachesClient ==
    \A w \in Workers :
        Negotiated(w) =>
            /\ ClientContentType(rw[w]) = MediaType(Format(rw[w]))
            /\ Format(rw[w]) = "xml" =>
                /\ Len(rw[w].body) = 2
                /\ rw[w].body[1] = XmlHeaderChunk
                /\ rw[w].body[2].kind = "xml"

(***************************************************************************)
(* The record and person endpoints                                         *)
(***************************************************************************)

\* C4: GET /v3.0/{id}/record answers 200 with the stored record of id, whose
\* orcid-identifier path is id, exactly when id is a key of the store; for any
\* other id it answers 404 and writes no record.
C4_RecordServedIffStored ==
    \A w \in Workers :
        pc[w] = "done" /\ req[w].handler = "handleGetRecord" =>
            IF req[w].orcid \in DOMAIN personStore
            THEN /\ rw[w].status = StatusOK
                 /\ rw[w].body =
                        Body(Format(rw[w]), "OrcidRecord", personStore[req[w].orcid])
                 /\ personStore[req[w].orcid].OrcidIdentifier.Path = req[w].orcid
            ELSE /\ rw[w].status = StatusNotFound
                 /\ ~HasDocument(rw[w])

\* GET record has been answered with 404 for an id that is not stored
C4_UnknownRecordAnswered ==
    \E w \in Workers :
        /\ pc[w] = "done"
        /\ req[w].handler = "handleGetRecord"
        /\ req[w].orcid \notin DOMAIN personStore
        /\ rw[w].status = StatusNotFound

\* C5: GET /v3.0/{id}/person answers 200 exactly when id is a key of the store, and
\* then with the person of the record GET record serves for id (given name "Sofia"
\* for the demo id); for any other id it answers 404.
C5_PersonOfStoredRecord ==
    \A w \in Workers :
        pc[w] = "done" /\ req[w].handler = "handleGetPerson" =>
            IF req[w].orcid \in DOMAIN personStore
            THEN /\ rw[w].status = StatusOK
                 /\ rw[w].body =
                        Body(Format(rw[w]), "Person", personStore[req[w].orcid].Person)
                 /\ req[w].orcid = DemoOrcid =>
                        resp[w].data[1].Name.GivenNames.Value = "Sofia"
            ELSE /\ rw[w].status = StatusNotFound
                 /\ ~HasDocument(rw[w])

\* GET person has been answered for a stored id other than the demo id
C5_OtherPersonAnswered ==
    \E w \in Workers :
        /\ pc[w] = "done"
        /\ req[w].handler = "handleGetPerson"
        /\ req[w].orcid \in DOMAIN personStore
        /\ req[w].orcid # DemoOrcid
        /\ rw[w].status = StatusOK

\* C6: no request changes the store: once the server serves, no step of any
\* handler, those of POST and PUT included, changes personStore or dataStore.
C6_RequestsLeaveStore ==
    [][phase = "serving" => personStore' = personStore /\ dataStore' = dataStore]_vars

\* a POST has been answered 201 while another worker is about to look a record up
C6_PostAnsweredBesideLookup ==
    \E w1, w2 \in Workers :
        /\ pc[w1] = "done"
        /\ req[w1].method = "POST"
        /\ rw[w1].status = StatusCreated
        /\ pc[w2] = "handleGetRecord.lookup"
        /\ DemoOrcid \in DOMAIN personStore

(***************************************************************************)
(* The codecs                                                              *)
(***************************************************************************)

\* C7: decoding the XML encoding of a full record of the seed data gives the
\* record again: every field the same, the element name filled in as XMLName, so
\* the scalars, the order of repeated elements and the optional parts are kept;
\* and the decoded value encodes to a document semantically equal to the first.
C7_RecordRoundTrip ==
    cn = "OrcidRecord" =>
        /\ Len(trail) >= 3 =>
            /\ trail[3].ok
            /\ trail[3].val[1] =
                  [trail[1].val[1] EXCEPT !.XMLName = [Space |-> "", Local |-> "record"]]
        /\ Len(trail) >= 4 => assertXMLEqual(trail[2].doc, trail[4].doc)

\* a full record has been encoded, decoded and encoded again
C7_RecordWentRound ==
    /\ cn = "OrcidRecord"
    /\ Len(trail) = 4
    /\ trail[3].ok
    /\ trail[3].val[1].Person.Emails # <<>>
    /\ trail[2].doc # trail[4].doc

C9_OptionalPartsWrittenIffPresent ==
    cn = "Person" =>
        /\ Len(trail) >= 2 =>
            /\ HasKid(Root(trail[2].doc), "biography") <=> trail[1].val[1].Biography # <<>>
            /\ HasKid(Root(trail[2].doc), "emails") <=> trail[1].val[1].Emails # <<>>
            /\ HasKid(Root(trail[2].doc), "researcher-urls")
                    <=> trail[1].val[1].ResearcherUrls # <<>>
        /\ jdoc # <<>> =>
            /\ HasKey(jdoc[1], "biography") <=> trail[1].val[1].Biography # <<>>
            /\ HasKey(jdoc[1], "emails") <=> trail[1].val[1].Emails # <<>>
            /\ HasKey(jdoc[1], "researcher-urls") <=> trail[1].val[1].ResearcherUrls # <<>>

\* a person with a Biography of empty content and no emails has been written in
\* both formats
C9_EmptyBiographyWritten ==
    /\ cn = "Person"
    /\ Len(trail) >= 2
    /\ jdoc # <<>>
    /\ trail[1].val[1].Biography = <<[Content |-> ""]>>
    /\ trail[1].val[1].Emails = <<>>
    /\ HasKid(Root(trail[2].doc), "biography")
    /\ HasKey(jdoc[1], "biography")
    /\ ~HasKey(jdoc[1], "emails")

\* C10: for every value the API serves, the non-null scalar leaf values of its JSON
\* encoding are the scalar leaf values of its XML encoding.
C10_SameLeavesInBothFormats ==
    \A w \in Workers :
        Negotiated(w) =>
            IF Format(rw[w]) = "xml"
            THEN XmlLeaves(Tokenize(Payload(rw[w]), <<>>))
                    = JsonLeaves(jsonEncode(resp[w].n, resp[w].data[1]))
            ELSE JsonLeaves(Payload(rw[w]))
                    = XmlLeaves(Tokenize(xmlEncode(resp[w].n, resp[w].data[1]), <<>>))

\* a work whose put-code is 0 has been served as JSON
C10_ZeroPutCodeServed ==
    \E w \in Workers :
        /\ Negotiated(w)
        /\ resp[w].n = "GenericWorkResponse"
        /\ resp[w].data[1].PutCode = 0
        /\ Format(rw[w]) = "json"
        /\ "0" \in JsonLeaves(Payload(rw[w]))

(***************************************************************************)
(* Works and employments                                                   *)
(***************************************************************************)

\* the member of JSON object j at key
JsonMember(j, key) == j.kids[CHOOSE i \in 1..Len(j.keys) : j.keys[i] = key]

\* the child element of element el of local name name
XmlChild(el, name) ==
    el.kids[CHOOSE i \in 1..Len(el.kids) : IsElemNode(el.kids[i]) /\ el.kids[i].local = name]

\* the text of the top-level field name of the document writer w1 has written
BodyField(w1, name) ==
    IF Format(w1) = "xml"
    THEN CharData(XmlChild(Tokenize(Payload(w1), <<>>), name).kids, 1)
    ELSE JsonMember(Payload(w1), name).text

\* worker w has answered a request of handler h through writeResponse
Answered(w, h) == Negotiated(w) /\ req[w].handler = h

\* C11: every POST of a work is answered 201 with a non-empty Location and a body
\* whose put-code is an integer in the closed range [100000, 999099].
C11_PostWorkPutCodeInClaimedRange ==
    \A w \in Workers :
        Answered(w, "handlePostWork") =>
            /\ rw[w].status = StatusCreated
            /\ rw[w].sent["Location"] # ""
            /\ Atoi(BodyField(rw[w], "put-code")).ok
            /\ Atoi(BodyField(rw[w], "put-code")).val \in 100000..999099

\* C11, the parts that hold: 201, a Location, and a put-code in the range of
\* rand.Intn(999999) + 100000, which is [100000, 1099998]
C11_PostWorkPutCodeInDrawnRange ==
    \A w \in Workers :
        Answered(w, "handlePostWork") =>
            /\ rw[w].status = StatusCreated
            /\ rw[w].sent["Location"] # ""
            /\ Atoi(BodyField(rw[w], "put-code")).ok
            /\ Atoi(BodyField(rw[w], "put-code")).val \in 100000..1099998

\* a work has been posted and answered with the largest put-code the draw gives
C11_LargestPutCodePosted ==
    \E w \in Workers :
        /\ Answered(w, "handlePostWork")
        /\ BodyField(rw[w], "put-code") = "1099998"

\* the resource of the endpoint request r goes to, as its path names it
EndpointResource(r) ==
    IF HasPrefix(r.path, "/v3.0/" \o r.orcid \o "/work") THEN "work" ELSE "employment"

Creating == {"handlePostWork", "handlePostEmployment"}
Updating == {"handlePutWork", "handlePutEmployment"}

\* C12: for every POST and PUT on a work or an employment, the Location header the
\* client receives is https://api.orcid.org/v3.0/{id}/{resource}/{putCode}, with the
\* id of the request path, the resource of the endpoint and the put-code of the body.
C12_LocationOfIdResourcePutCode ==
    \A w \in Workers :
        (Negotiated(w) /\ req[w].handler \in Creating \cup Updating) =>
            rw[w].sent["Location"]
                = "https://api.orcid.org/v3.0/" \o req[w].orcid \o "/"
                    \o EndpointResource(req[w]) \o "/" \o BodyField(rw[w], "put-code")

\* an employment of an id that is not in the store has been created, and one has
\* been updated under a put-code that is no number
C12_EmploymentLocationSent ==
    \E w \in Workers :
        /\ Negotiated(w)
        /\ req[w].orcid = "0000-0009-9999-9999"
        /\ \/ /\ req[w].handler = "handlePostEmployment"
              /\ rw[w].sent["Location"]
                    = "https://api.orcid.org/v3.0/0000-0009-9999-9999/employment/1099998"
           \/ /\ req[w].handler = "handlePutEmployment"
              /\ req[w].putCode = "abc"
              /\ Format(rw[w]) = "json"
              /\ rw[w].sent["Location"]
                    = "https://api.orcid.org/v3.0/0000-0009-9999-9999/employment/abc"

\* C13: every PUT of a work is answered 200 with a body whose status is "updated"
\* and whose put-code is the put-code of the path, for every id and every put-code;
\* no PUT of a work ends in an error.
C13_PutWorkEchoesPutCode ==
    \A w \in Workers :
        (pc[w] = "done" /\ req[w].handler = "handlePutWork") =>
            /\ Negotiated(w)
            /\ rw[w].status = StatusOK
            /\ rw[w].logStatus = StatusOK
            /\ BodyField(rw[w], "status") = "updated"
            /\ BodyField(rw[w], "put-code") = req[w].putCode

\* a work of an id that is not in the store has been updated under a put-code that
\* is no number
C13_UnknownWorkUpdated ==
    \E w \in Workers :
        /\ Answered(w, "handlePutWork")
        /\ req[w].orcid \notin DOMAIN personStore
        /\ req[w].putCode = "abc"
        /\ BodyField(rw[w], "put-code") = "abc"
        /\ rw[w].status = StatusOK

\* C14: every GET of a work is answered 200 with a synthesized work whose put-code
\* is the put-code of the request path, for every id and every put-code path
\* segment; no GET of a work ends in an error.
C14_GetWorkEchoesPutCode ==
    \A w \in Workers :
        (pc[w] = "done" /\ req[w].handler = "handleGetWork") =>
            /\ Negotiated(w)
            /\ rw[w].status = StatusOK
            /\ BodyField(rw[w], "type") = "work"
            /\ BodyField(rw[w], "put-code") = req[w].putCode

\* request r2 is the employment counterpart of work request r1
Counterpart(r1, r2) ==
    /\ r1.handler \in {"handleGetWork", "handlePostWork", "handlePutWork"}
    /\ r2.handler \in {"handleGetEmployment", "handlePostEmployment", "handlePutEmployment"}
    /\ EndpointResource(r1) = "work"
    /\ EndpointResource(r2) = "employment"
    /\ r2.method = r1.method
    /\ r2.orcid = r1.orcid
    /\ r2.putCode = r1.putCode
    /\ r2.accept = r1.accept

\* the Location header the client of worker w receives is empty or names resource
\* and the put-code of the body
LocationForm(w, resource) ==
    \/ rw[w].sent["Location"] = ""
    \/ rw[w].sent["Location"]
          = "https://api.orcid.org/v3.0/" \o req[w].orcid \o "/" \o resource \o "/"
                \o BodyField(rw[w], "put-code")

\* the put-code of the body worker w has written is a number drawn as
\* rand.Intn(999999) + 100000
Drawn(w) ==
    /\ Atoi(BodyField(rw[w], "put-code")).ok
    /\ Atoi(BodyField(rw[w], "put-code")).val \in 100000..1099998
    /\ Format(rw[w]) = "json" => JsonMember(Payload(rw[w]), "put-code").kind = "number"

\* C15: a work request and its employment counterpart (same method, id, put-code
\* and Accept) are answered alike: the same status, the same negotiated format and
\* media type, the same put-code handling (GET and PUT write the same put-code, POST
\* draws from the same range), and the same Location form with "employment" in the
\* place of "work".
C15_EmploymentAnsweredAsWork ==
    \A w1, w2 \in Workers :
        (pc[w1] = "done" /\ pc[w2] = "done" /\ Counterpart(req[w1], req[w2])) =>
            /\ Negotiated(w1) /\ Negotiated(w2)
            /\ rw[w2].status = rw[w1].status
            /\ rw[w2].logStatus = rw[w1].logStatus
            /\ Format(rw[w2]) = Format(rw[w1])
            /\ rw[w2].header["Content-Type"] = rw[w1].header["Content-Type"]
            /\ ClientContentType(rw[w2]) = ClientContentType(rw[w1])
            /\ IF req[w1].method = "POST"
               THEN Drawn(w1) /\ Drawn(w2)
               ELSE BodyField(rw[w2], "put-code") = BodyField(rw[w1], "put-code")
            /\ (rw[w2].sent["Location"] = "") = (rw[w1].sent["Location"] = "")
            /\ LocationForm(w1, "work")
            /\ LocationForm(w2, "employment")

\* a work and an employment have been read under a put-code that is no number, and
\* both are answered with put-code 0 in JSON
C15_BothReadUnderNoNumber ==
    /\ pc[1] = "done" /\ pc[2] = "done"
    /\ Counterpart(req[1], req[2])
    /\ req[1].method = "GET"
    /\ req[1].putCode = "abc"
    /\ Format(rw[1]) = "json" /\ Format(rw[2]) = "json"
    /\ BodyField(rw[1], "put-code") = "0"
    /\ BodyField(rw[2], "put-code") = "0"

(***************************************************************************)
(* Search and OAuth                                                        *)
(***************************************************************************)

\* the identifiers of the search results in the document writer w1 has written,
\* one sequence of identifier paths per result
Results(w1) ==
    IF Format(w1) = "xml"
    THEN LET root == Tokenize(Payload(w1), <<>>)
             res == SelectSeq(root.kids,
                              LAMBDA k : IsElemNode(k) /\ k.local = "result")
         IN  [i \in 1..Len(res) |->
                LET ids == SelectSeq(res[i].kids,
                                     LAMBDA k : IsElemNode(k)
                                                  /\ k.local = "orcid-identifier")
                IN  [j \in 1..Len(ids) |-> CharData(XmlChild(ids[j], "path").kids, 1)]]
    ELSE LET res == JsonMember(Payload(w1), "result").kids
         IN  [i \in 1..Len(res) |->
                <<JsonMember(JsonMember(res[i], "orcid-identifier"), "path").text>>]

\* C16: a search is answered 500 exactly when q contains "error"; every other
\* search, the one without q included, is answered 200 with a result of exactly one
\* identifier and num-found 1.
C16_SearchFailsIffQueryHoldsError ==
    \A w \in Workers :
        (pc[w] = "done" /\ req[w].handler = "handleSearch") =>
            /\ (rw[w].status = StatusInternalServerError)
                    <=> Contains(Get(req[w].q), "error")
            /\ ~Contains(Get(req[w].q), "error") =>
                    /\ Negotiated(w)
                    /\ rw[w].status = StatusOK
                    /\ Results(rw[w]) = <<(<<"0000-0001-2345-6789">>)>>
                    /\ BodyField(rw[w], "num-found") = "1"

\* a search without q has been answered with its one result
C16_SearchWithoutQueryAnswered ==
    \E w \in Workers :
        /\ Answered(w, "handleSearch")
        /\ req[w].q = <<>>
        /\ rw[w].status = StatusOK
        /\ Len(Results(rw[w])) = 1

\* strings.HasSuffix
HasSuffix(s, suffix) ==
    /\ Len(s) >= Len(suffix)
    /\ SubSeq(s, Len(s) - Len(suffix) + 1, Len(s)) = suffix

\* worker w has answered an authorization request
Authorized(w) == pc[w] = "done" /\ req[w].handler = "handleAuthorize"

\* C17: an authorization request without redirect_uri, or with an empty one, is
\* answered 400 without a Location header; every other one is answered 302 with the
\* Location redirect_uri?code=mock-auth-code-12345&state=<state>, the state being
\* the one supplied.
C17_RedirectCarriesCodeAndState ==
    \A w \in Workers :
        Authorized(w) =>
            IF Get(req[w].redirect_uri) = ""
            THEN rw[w].status = StatusBadRequest /\ rw[w].sent["Location"] = ""
            ELSE /\ rw[w].status = StatusFound
                 /\ rw[w].sent["Location"]
                        = Get(req[w].redirect_uri) \o "?code=mock-auth-code-12345&state="
                            \o Get(req[w].state)

\* the query handleAuthorize adds for state: the state parameter only when a state
\* that is not empty was supplied
AddedQuery(state) ==
    "?code=mock-auth-code-12345" \o (IF state = "" THEN "" ELSE "&state=" \o state)

\* C17, amended: 400 without a Location header when redirect_uri is missing or
\* empty; otherwise 302 with a Location that ends with ?code=mock-auth-code-12345,
\* followed by &state=<state> exactly when a state that is not empty was supplied;
\* for an absolute redirect_uri the Location is the redirect_uri followed by that.
C17_RedirectCarriesCodeAndGivenState ==
    \A w \in Workers :
        Authorized(w) =>
            IF Get(req[w].redirect_uri) = ""
            THEN /\ rw[w].status = StatusBadRequest
                 /\ rw[w].sent["Location"] = ""
            ELSE /\ rw[w].status = StatusFound
                 /\ HasSuffix(rw[w].sent["Location"], AddedQuery(Get(req[w].state)))
                 /\ Contains(Get(req[w].redirect_uri), "://") =>
                        rw[w].sent["Location"]
                            = Get(req[w].redirect_uri) \o AddedQuery(Get(req[w].state))

\* an authorization request with a redirect_uri and no state has been redirected
C17_RedirectedWithoutState ==
    \E w \in Workers :
        /\ Authorized(w)
        /\ req[w].redirect_uri = <<"http://example.com">>
        /\ req[w].state = <<>>
        /\ rw[w].status = StatusFound
        /\ rw[w].sent["Location"] = "http://example.com?code=mock-auth-code-12345"

\* the texts of the members of JSON object j, in the order written
MemberTexts(j) == [i \in 1..Len(j.kids) |-> j.kids[i].text]

\* C18: a token request whose body parses is answered 200 with one fixed token
\* response (access token not empty, identity 0000-0001-2345-6789), whatever the
\* Accept header, and always as JSON; one whose body does not parse is answered 400
\* and gets no token.
C18_TokenFixedAndJson ==
    \A w \in Workers :
        (pc[w] = "done" /\ req[w].handler = "handleToken") =>
            IF req[w].formOK
            THEN /\ rw[w].status = StatusOK
                 /\ ClientContentType(rw[w]) = "application/json; charset=utf-8"
                 /\ Len(rw[w].body) = 1
                 /\ Format(rw[w]) = "json"
                 /\ Payload(rw[w]).keys
                        = <<"access_token", "token_type", "refresh_token", "expires_in",
                            "scope", "name", "orcid">>
                 /\ MemberTexts(Payload(rw[w]))
                        = <<"mock-access-token-12345", "bearer", "mock-refresh-token-67890",
                            "631138518", "/read-limited /activities/update",
                            "Sofia Garcia", "0000-0001-2345-6789">>
                 /\ JsonMember(Payload(rw[w]), "access_token").text # ""
                 /\ JsonMember(Payload(rw[w]), "orcid").text = "0000-0001-2345-6789"
            ELSE /\ rw[w].status = StatusBadRequest
                 /\ ~HasDocument(rw[w])

\* a token request that asks for XML has been answered with the token in JSON
C18_TokenAskedInXml ==
    \E w \in Workers :
        /\ pc[w] = "done"
        /\ req[w].handler = "handleToken"
        /\ req[w].accept = <<"application/xml">>
        /\ req[w].formOK
        /\ Format(rw[w]) = "json"
        /\ rw[w].status = StatusOK

(***************************************************************************)
(* Errors                                                                  *)
(***************************************************************************)

ErrorStatus == {StatusBadRequest, StatusNotFound, StatusInternalServerError}

\* C19: a request that ends in an error status (400 of the token and authorize
\* endpoints, 404 of record and person, 500 of search) is answered once: one status,
\* the same the middleware records, and one plain-text body; the negotiator is not
\* invoked for it, so the body is plain text whatever the Accept header asks for.
C19_ErrorsArePlainAndFinal ==
    \A w \in Workers :
        /\ pc[w] = "writeResponse" => rw[w].status \notin ErrorStatus
        /\ (pc[w] = "done" /\ rw[w].status \in ErrorStatus) =>
                /\ resp[w] = NoData
                /\ rw[w].logStatus = rw[w].status
                /\ Len(rw[w].body) = 1
                /\ rw[w].body[1].kind = "text"
                /\ ~HasDocument(rw[w])
                /\ rw[w].sent["Content-Type"] = "text/plain; charset=utf-8"
                /\ ClientContentType(rw[w]) = "text/plain; charset=utf-8"
                /\ rw[w].status =
                      (IF req[w].handler \in {"handleToken", "handleAuthorize"}
                       THEN StatusBadRequest
                       ELSE IF req[w].handler \in {"handleGetRecord", "handleGetPerson"}
                       THEN StatusNotFound
                       ELSE StatusInternalServerError)
                /\ req[w].handler \in {"handleToken", "handleAuthorize", "handleGetRecord",
                                       "handleGetPerson", "handleSearch"}

\* a search that fails has been answered in plain text to a client that accepts
\* JSON only
C19_FailedSearchAnsweredPlain ==
    \E w \in Workers :
        /\ pc[w] = "done"
        /\ req[w].handler = "handleSearch"
        /\ req[w].accept = <<"application/json">>
        /\ rw[w].status = StatusInternalServerError
        /\ rw[w].body = <<TextChunk("Search failed\n")>>

(***************************************************************************)
(* The store lock                                                          *)
(***************************************************************************)

\* worker w is at the statement that reads personStore
AtLookup(w) == pc[w] \in {"handleGetRecord.lookup", "handleGetPerson.lookup"}

\* worker w is between storeMutex.RLock() and the return of storeMutex.RUnlock()
InLock(w) ==
    pc[w] \in {"handleGetRecord.lookup", "handleGetRecord.RUnlock",
               "handleGetPerson.lookup", "handleGetPerson.RUnlock"}

\* C20: while the server serves, a worker reads the store only while it holds the
\* read lock, and holds it only around the read; no handler takes the write lock;
\* a record or person request that comes to storeMutex.RLock() can take the lock
\* whatever the other workers do, so any number of them hold it together.
C20_StoreReadUnderSharedLock ==
    /\ phase = "serving" => ~storeMutex.writer
    /\ storeMutex.readers = {w \in Workers : InLock(w)}
    /\ \A w \in Workers :
        /\ AtLookup(w) => w \in storeMutex.readers
        /\ pc[w] = "handleGetRecord" => ENABLED handleGetRecord_RLock(w)
        /\ pc[w] = "handleGetPerson" => ENABLED handleGetPerson_RLock(w)

\* two workers read the store at the same time, both holding the read lock
C20_TwoReadersTogether ==
    \E w1, w2 \in Workers :
        /\ w1 # w2
        /\ AtLookup(w1) /\ AtLookup(w2)
        /\ {w1, w2} \subseteq storeMutex.readers

(***************************************************************************)
(* Startup and the store                                                   *)
(***************************************************************************)

\* C21: the startup initializer is the only writer of the store, and every write to
\* personStore or dataStore is made while the write lock of storeMutex is held.
C21_StoreWrittenUnderWriteLock ==
    [][(personStore' # personStore \/ dataStore' # dataStore) =>
            /\ phase = "init"
            /\ storeMutex.writer]_vars

(***************************************************************************)
(* The XML vocabulary of the responses                                     *)
(***************************************************************************)

RECURSIVE Elements(_)
\* element el, as resolved by the tokenizer, and the elements below it
Elements(el) ==
    {el} \cup UNION {Elements(el.kids[i]) :
                        i \in {k \in 1..Len(el.kids) : IsElemNode(el.kids[k])}}

\* has element el an unqualified attribute of name name
HasPlainAttr(el, name) ==
    \E i \in 1..Len(el.attrs) : el.attrs[i].space = "" /\ el.attrs[i].local = name

\* the elements that own a put-code: work and employment summaries, and the roots
\* of the work, employment, put-code and update responses
OwnsPutCode(el, n, root) ==
    \/ el.local \in {"work-summary", "employment-summary"}
    \/ /\ el = root
       /\ n \in {"GenericWorkResponse", "GenericEmploymentResponse", "PutCodeResponse",
                 "UpdateResponse"}

\* the elements that own a visibility: the entries of emails
OwnsVisibility(el) == el.local = "email" /\ HasElem(el.kids)

\* C22: in every XML response, visibility and put-code are unqualified attributes of
\* the element that owns them and no child elements of it; in every JSON response
\* of a work, an employment or a put-code echo, put-code is an ordinary field that
\* holds the value.
C22_PutCodeAndVisibilityAreAttributes ==
    \A w \in Workers :
        Negotiated(w) =>
            IF Format(rw[w]) = "xml"
            THEN \A el \in Elements(Tokenize(Payload(rw[w]), <<>>)) :
                    /\ ~HasKid(el, "put-code")
                    /\ ~HasKid(el, "visibility")
                    /\ OwnsPutCode(el, resp[w].n, Tokenize(Payload(rw[w]), <<>>)) =>
                            HasPlainAttr(el, "put-code")
                    /\ OwnsVisibility(el) => HasPlainAttr(el, "visibility")
            ELSE resp[w].n \in {"GenericWorkResponse", "GenericEmploymentResponse",
                                "PutCodeResponse"} =>
                    /\ HasKey(Payload(rw[w]), "put-code")
                    /\ JsonMember(Payload(rw[w]), "put-code").text
                            = Itoa(resp[w].data[1].PutCode)

RECURSIVE WrittenElements(_)
\* element node, as written, and the elements below it
WrittenElements(node) ==
    {node} \cup UNION {WrittenElements(node.kids[i]) :
                          i \in {k \in 1..Len(node.kids) : IsElemNode(node.kids[k])}}

\* the namespace prefixes the element names of the document under root are written
\* with
UsedPrefixes(root) == {el.prefix : el \in WrittenElements(root)} \ {""}

\* the namespace prefixes element root declares
DeclaredPrefixes(root) ==
    {root.attrs[i].local : i \in {k \in 1..Len(root.attrs) : root.attrs[k].prefix = "xmlns"}}

\* element root carries a schemaLocation attribute under a prefix it declares
HasSchemaLocation(root) ==
    \E i \in 1..Len(root.attrs) :
        /\ root.attrs[i].local = "schemaLocation"
        /\ root.attrs[i].prefix \in DeclaredPrefixes(root)

\* C23: in every XML document the service writes, every namespace prefix an element
\* name is written with is declared on the document root, and the root carries an
\* XML-schema-instance schemaLocation attribute.
C23_PrefixesDeclaredOnRoot ==
    \A w \in Workers :
        (Negotiated(w) /\ Format(rw[w]) = "xml") =>
            /\ UsedPrefixes(Payload(rw[w])) \subseteq DeclaredPrefixes(Payload(rw[w]))
            /\ HasSchemaLocation(Payload(rw[w]))

(***************************************************************************)
(* Decoding faulty documents                                               *)
(***************************************************************************)

\* the namespace table of the models package
NamespaceTable ==
    {NsCommon, NsPerson, NsPersonalDetails, NsOtherName, NsResearcherUrl, NsEmail,
     NsAddress, NsKeyword, NsExternalIdentifier}

RECURSIVE ReverseAttrs(_)
\* element node with the attributes of every element in the opposite order
ReverseAttrs(node) ==
    IF ~IsElemNode(node) THEN node
    ELSE [node EXCEPT
            !.attrs = [i \in 1..Len(node.attrs) |-> node.attrs[Len(node.attrs) + 1 - i]],
            !.kids = [i \in 1..Len(node.kids) |-> ReverseAttrs(node.kids[i])]]

\* document doc is malformed or truncated
Malformed(doc) == \E i \in 1..Len(doc) : HasSyntaxError(doc[i])

\* document doc holds an element whose namespace is no entry of the namespace table
HasUnknownNamespace(doc) ==
    \E el \in Elements(Root(doc)) : el.space \notin NamespaceTable

\* document doc lacks the name of the person or the address of an email entry
LacksSubElement(doc) ==
    \/ ~HasKid(Root(doc), "name")
    \/ \E el \in Elements(Root(doc)) :
            el.local = "email" /\ HasElem(el.kids) /\ ~HasKid(el, "email")

\* C24: xml.Unmarshal into models.Person fails, and gives no value, on malformed or
\* truncated XML, on a document that holds an element of a namespace outside the
\* namespace table, and on a document that lacks a required sub-element; on a
\* well-formed document elements are resolved by namespace and local name, so
\* another prefix spelling or attribute order gives the same value.
C24_DecodeFailsOnFaultyDocuments ==
    (cn = "m_Person" /\ trail[1].kind = "doc" /\ Len(trail) >= 2) =>
        IF Malformed(trail[1].doc) THEN ~trail[2].ok
        ELSE /\ HasUnknownNamespace(trail[1].doc) => ~trail[2].ok
             /\ LacksSubElement(trail[1].doc) => ~trail[2].ok
             /\ trail[2] = ValueItem(xmlDecode(cn, [i \in 1..Len(trail[1].doc) |->
                                                        ReverseAttrs(trail[1].doc[i])]))
             /\ \A o \in DocOptions :
                    trail[1].doc = PersonDoc(o) =>
                        trail[2] = ValueItem(xmlDecode(cn,
                                        PersonDoc([o EXCEPT !.altPrefix = ~o.altPrefix])))

(***************************************************************************)
(* Failing writes                                                          *)
(***************************************************************************)

\* worker w has ended a request on a path that serializes a response: through
\* writeResponse, or the token endpoint's own encoder
Serialized(w) ==
    /\ pc[w] = "done"
    /\ \/ resp[w].n # ""
       \/ req[w].handler = "handleToken" /\ req[w].formOK

\* C25: on every path that serializes a response (the XML and JSON branches of
\* writeResponse, the write of the XML prolog, the token endpoint's JSON write) no
\* failure is swallowed: every write that fails is logged, and nothing, no error
\* document either, is written after it.
C25_WriteFailuresLogged ==
    \A w \in Workers :
        Serialized(w) =>
            /\ Len(rw[w].logged) = rw[w].failed
            /\ rw[w].failed > 0 => \A i \in 1..Len(rw[w].body) : rw[w].body[i].kind # "text"


\* ---------------------------------------------------------------------------
\* C26
\* ---------------------------------------------------------------------------

\* the variable the address is taken from: MOAT_PORT when set, else PORT
Chosen(e) == IF e.MOAT_PORT # "" THEN e.MOAT_PORT ELSE e.PORT

\* C26: once the server listens, its address is ":8080" when neither MOAT_PORT
\* nor PORT is set, and otherwise the value of MOAT_PORT (of PORT when
\* MOAT_PORT is not set), with a colon put in front only when the value does
\* not start with one; the address always starts with a colon.
C26_ListenAddressFromEnvironment ==
    phase = "serving" =>
        /\ HasPrefix(addr, ":")
        /\ Chosen(env) = "" => addr = ":8080"
        /\ Chosen(env) # "" /\ HasPrefix(Chosen(env), ":") => addr = Chosen(env)
        /\ Chosen(env) # "" /\ ~HasPrefix(Chosen(env), ":") => addr = ":" \o Chosen(env)

\* both variables are set, and the server listens on MOAT_PORT's port
C26_MoatPortWinsOverPort ==
    /\ phase = "serving"
    /\ env.MOAT_PORT = "9090"
    /\ env.PORT = ":"
    /\ addr = ":9090"


\* ---------------------------------------------------------------------------
\* C27
\* ---------------------------------------------------------------------------

ItemHandlers == {"handleGetWork", "handleGetEmployment"}

\* r1 and r2 ask one route for the same put-code with the same Accept header
SameItem(r1, r2) ==
    /\ r1.handler \in ItemHandlers
    /\ r2.handler = r1.handler
    /\ r2.putCode = r1.putCode
    /\ r2.accept = r1.accept

\* C27: two answered GETs of a work (or of an employment) with the same put-code
\* and the same Accept header have status 200 and the same headers and body,
\* whatever their ids, stored or not; a worker serving such a request never holds
\* the store's lock, is never at a store lookup and has no record read from it.
C27_ItemIgnoresIdAndStore ==
    /\ \A w1, w2 \in Workers :
        pc[w1] = "done" /\ pc[w2] = "done" /\ SameItem(req[w1], req[w2]) =>
            /\ rw[w1].status = StatusOK
            /\ rw[w2].status = StatusOK
            /\ rw[w2].body = rw[w1].body
            /\ rw[w2].sent = rw[w1].sent
    /\ \A w \in Workers :
        req[w].handler \in ItemHandlers =>
            /\ w \notin storeMutex.readers
            /\ ~AtLookup(w)
            /\ local[w] = NoLocal

\* the same work has been asked under a stored id and under one not stored
C27_SameWorkUnderStoredAndUnknownId ==
    /\ pc[1] = "done"
    /\ pc[2] = "done"
    /\ SameItem(req[1], req[2])
    /\ req[1].handler = "handleGetWork"
    /\ req[1].orcid \in DOMAIN personStore
    /\ req[2].orcid \notin DOMAIN personStore
    /\ rw[1].status = StatusOK
    /\ Len(rw[1].body) > 0


\* ---------------------------------------------------------------------------
\* C28
\* ---------------------------------------------------------------------------

\* worker w serves a request for the record or the person of a seeded id
SeededLookup(w) ==
    /\ req[w].handler \in {"handleGetRecord", "handleGetPerson"}
    /\ req[w].orcid \in SeededIds

\* rec is the whole record createMockRecord builds for the seeded id k: the
\* identifier, the person with name, biography, email and url, and the work and
\* employment summaries
Built(k, rec) ==
    \E i \in 1..Len(people) :
        /\ people[i].orcid = k
        /\ rec.OrcidIdentifier =
              [Uri |-> "https://orcid.org/" \o k, Path |-> k, Host |-> "orcid.org"]
        /\ rec.Person.Name.GivenNames = Val(people[i].given)
        /\ rec.Person.Name.FamilyName = Val(people[i].family)
        /\ rec.Person.Biography = <<[Content |-> people[i].bio]>>
        /\ Len(rec.Person.Emails) = 1
        /\ Len(rec.Person.ResearcherUrls) = 1
        /\ Len(rec.Activities.Works.Group) = 1
        /\ Len(rec.Activities.Employment.AffiliationGroup) = 1

\* C28: a worker handles a request only once init() has stored all six users;
\* a lookup of a seeded id finds the whole record of that id, and its request is
\* never answered 404 but 200 with that record (or its person); every key k of
\* the store maps to a record whose identifier path is k and whose URI is
\* "https://orcid.org/" followed by k.
C28_RequestsSeeSeededStore ==
    /\ \A w \in Workers :
        pc[w] # "idle" =>
            /\ phase = "serving"
            /\ initIdx = Len(people)
            /\ DOMAIN personStore = SeededIds
            /\ \A k \in SeededIds : Built(k, personStore[k])
    /\ \A w \in Workers :
        SeededLookup(w) =>
            /\ pc[w] \in {"handleGetRecord.RUnlock", "handleGetRecord.respond",
                          "handleGetPerson.RUnlock", "handleGetPerson.respond"} =>
                    /\ local[w].ok
                    /\ local[w].record = personStore[req[w].orcid]
            /\ rw[w].status # StatusNotFound
            /\ pc[w] = "done" =>
                    /\ rw[w].status = StatusOK
                    /\ HasDocument(rw[w])
                    /\ resp[w].data[1] =
                          IF req[w].handler = "handleGetRecord"
                          THEN personStore[req[w].orcid]
                          ELSE personStore[req[w].orcid].Person
    /\ \A k \in DOMAIN personStore :
        /\ personStore[k].OrcidIdentifier.Path = k
        /\ personStore[k].OrcidIdentifier.Uri = "https://orcid.org/" \o k

\* the record of the last seeded user is served while the other worker looks up
\* the first one
C28_LastSeededRecordServed ==
    /\ pc[1] = "done"
    /\ req[1].handler = "handleGetRecord"
    /\ req[1].orcid = people[Len(people)].orcid
    /\ rw[1].status = StatusOK
    /\ HasDocument(rw[1])
    /\ pc[2] = "handleGetPerson.lookup"
    /\ req[2].orcid = DemoOrcid


\* ---------------------------------------------------------------------------
\* C29
\* ---------------------------------------------------------------------------

\* nothing of the response of worker w has been written
NothingWritten(w) ==
    /\ ~rw[w].wroteHeader
    /\ rw[w].status = 0
    /\ rw[w].body = <<>>

\* worker w takes, gives back the read lock in this step
Acquires(w) == w \notin storeMutex.readers /\ w \in storeMutex'.readers
Releases(w) == w \in storeMutex.readers /\ w \notin storeMutex'.readers

\* C29: a worker in handleGetRecord or handleGetPerson takes the read lock once,
\* as its first step, and gives it back once, as the step that brings it to the
\* found/not-found branch, which is reached in no other way; while it holds the
\* lock nothing of its response is written, whether the id is found or not; a
\* response is written, and a handler ends, only without the lock.
C29_LockReleasedBeforeResponse ==
    /\ [](\A w \in Workers :
            /\ w \in storeMutex.readers => InLock(w) /\ NothingWritten(w)
            /\ pc[w] \in {"handleGetRecord.respond", "handleGetPerson.respond",
                          "writeResponse", "done", "idle"} => w \notin storeMutex.readers
            /\ ~NothingWritten(w) => w \notin storeMutex.readers)
    /\ [][\A w \in Workers :
            /\ Acquires(w) <=>
                    /\ pc[w] \in {"handleGetRecord", "handleGetPerson"}
                    /\ pc'[w] # pc[w]
            /\ Releases(w) <=>
                    /\ pc'[w] \in {"handleGetRecord.respond", "handleGetPerson.respond"}
                    /\ pc'[w] # pc[w]
            /\ rw'[w] # rw[w] /\ pc[w] # "idle" /\ pc'[w] # "idle" =>
                    /\ w \notin storeMutex.readers
                    /\ w \notin storeMutex'.readers]_vars

\* a person request for an id that is not stored has ended 404 without the lock
\* while the other worker holds it
C29_NotFoundAnsweredAfterRelease ==
    /\ pc[1] = "done"
    /\ req[1].handler = "handleGetPerson"
    /\ rw[1].status = StatusNotFound
    /\ 1 \notin storeMutex.readers
    /\ pc[2] = "handleGetRecord.RUnlock"
    /\ 2 \in storeMutex.readers


\* ---------------------------------------------------------------------------
\* C30
\* ---------------------------------------------------------------------------

\* how far a handler has come: its entry, the map read, the unlock, the branch,
\* writeResponse, its end
Rank(p) ==
    CASE p = "idle" -> 0
      [] p \in {"handleGetRecord.lookup", "handleGetPerson.lookup"} -> 2
      [] p \in {"handleGetRecord.RUnlock", "handleGetPerson.RUnlock"} -> 3
      [] p \in {"handleGetRecord.respond", "handleGetPerson.respond"} -> 4
      [] p = "writeResponse" -> 5
      [] p = "done" -> 6
      [] OTHER -> 1

\* worker w is inside a handler
Running(w) == pc[w] \notin {"idle", "done"}

\* the request of worker w has ended with one status code written
Completed(w) ==
    /\ pc[w] = "done"
    /\ rw[w].wroteHeader
    /\ rw[w].status # 0
    /\ rw[w].logStatus = rw[w].status

\* C30: under fair scheduling every request that has started reaches its end
\* with one status code written; a handler only moves forward, never back to a
\* statement it has passed; a status once written stays as it is to the end of
\* the request; and a worker inside a handler can always take its next step,
\* whatever the other workers do.
C30_EveryRequestCompletesOnce ==
    /\ \A w \in Workers : Running(w) ~> Completed(w)
    /\ [](\A w \in Workers :
            /\ Running(w) => ENABLED <<Handler(w)>>_vars
            /\ pc[w] = "done" => Completed(w))
    /\ [][\A w \in Workers :
            /\ pc'[w] # pc[w] /\ pc'[w] # "idle" => Rank(pc'[w]) > Rank(pc[w])
            /\ rw[w].status # 0 /\ pc'[w] # "idle" => rw'[w].status = rw[w].status]_vars

\* both workers are inside handlers, one of them at the read lock the other holds
C30_TwoRequestsUnderWay ==
    /\ pc[1] = "handleGetRecord"
    /\ pc[2] = "handleGetPerson.RUnlock"
    /\ 2 \in storeMutex.readers
====
